---- MODULE Spec2Model ----
(***************************************************************************)
(* Model of the CMake test adapter (src/src/cmake-adapter.ts): the         *)
(* idle/loading/running/cancelled state machine, the asynchronous load()   *)
(* and run() invocations with their suspension points, cancel(),           *)
(* dispose(), the runner processes they spawn and the events they fire.    *)
(*                                                                         *)
(* Functions that are checked on their own have their own specification   *)
(* over the variables fnArg and fnRet: the stream parser with the run      *)
(* callback (StreamSpec), the conversion of the test list to the suite     *)
(* tree (TreeSpec), getTestIndexes (IndexSpec), the per-test run loop of   *)
(* src/unnamed/part_003 (LoopSpec), getParallelJobs (JobsSpec) and         *)
(* loadCmakeTests (LoadSpec).                                              *)
(*                                                                         *)
(* Strings that the code inspects character by character (test names,      *)
(* suite IDs, delimiters) are sequences of one-character strings.          *)
(***************************************************************************)
EXTENDS Integers, Sequences, FiniteSets, TLC

(***************************************************************************)
(* Bounds                                                                  *)
(***************************************************************************)
\* number of API calls (load, run, cancel, dispose) made on the adapter
MaxCalls == 3
\* number of plain output lines a runner process prints, over all its tests
MaxOut == 1

(***************************************************************************)
(* Program constants                                                       *)
(***************************************************************************)
ROOT_SUITE_ID == <<"*">>
SUITE_SUFFIX == <<"*">>

(***************************************************************************)
(* Inputs: test names, manifests, requests, settings                       *)
(***************************************************************************)
NameAX == <<"a", "/", "x">>
NameAY == <<"a", "/", "y">>
SuiteA == <<"a", "/", "*">>

\* the manifests the runner may report for the build directory
Manifests == { <<NameAX, NameAY>>, <<NameAY>> }

\* the ID lists the Test Explorer may pass to run()
Requests == { <<ROOT_SUITE_ID>>, <<NameAX>>, <<SuiteA>> }

\* values of the cmakeExplorer.suiteDelimiter setting
Delimiters == { <<>>, <<"/">> }

\* CTest paths found in CMakeCache.txt
CtestPaths == { "ctest" }

NoProc == 0

VARIABLES
    state,               \* CmakeAdapter.state
    ctestPath,           \* CmakeAdapter.ctestPath
    cmakeTests,          \* CmakeAdapter.cmakeTests (list of test names)
    currentTestProcess,  \* CmakeAdapter.currentTestProcess (process id or NoProc)
    disposables,         \* CmakeAdapter.disposables (emitter names)
    disposed,            \* emitters whose dispose() has been called
    frames,              \* in-flight load()/run() invocations, by invocation id
    procs,               \* the runner processes spawned since the last
                         \* accepted load() or run() began, by process id
    events,              \* what was fired on the adapter's emitters since
                         \* the last accepted load() or run() began, in order
    nApi,                \* number of API calls made so far
    lastCall,            \* the API call made last
    fnArg,               \* the argument of the function applied on its own
    fnRet                \* what the function has computed from it so far

vars == <<state, ctestPath, cmakeTests, currentTestProcess, disposables,
          disposed, frames, procs, events, nApi, lastCall, fnArg, fnRet>>

(***************************************************************************)
(* String helpers (JavaScript String / Array methods on sequences)         *)
(***************************************************************************)
\* String.prototype.startsWith
StartsWith(s, prefix) ==
    /\ Len(prefix) <= Len(s)
    /\ SubSeq(s, 1, Len(prefix)) = prefix

\* String.prototype.endsWith
EndsWith(s, suffix) ==
    /\ Len(suffix) <= Len(s)
    /\ SubSeq(s, Len(s) - Len(suffix) + 1, Len(s)) = suffix

\* Array.prototype.findIndex(...) + 1: the 1-based position of the first
\* element equal to id, 0 when there is none
FindIndexPlus1(list, id) ==
    IF \E i \in 1..Len(list) : list[i] = id
    THEN CHOOSE i \in 1..Len(list) :
            /\ list[i] = id
            /\ \A j \in 1..(i - 1) : list[j] # id
    ELSE 0

\* a line of runner output: its shape, the test index and name it carries
\* and its sequence number among the lines of that test
Line(kind, index, name, n) ==
    [kind |-> kind, index |-> index, name |-> name, n |-> n]

LineBreak == Line("\n", 0, <<>>, 0)

\* Array.prototype.join('\n'): the lines separated by line breaks
RECURSIVE Join(_)
Join(lines) ==
    IF lines = <<>> THEN <<>>
    ELSE IF Len(lines) = 1 THEN <<lines[1]>>
    ELSE <<lines[1], LineBreak>> \o Join(Tail(lines))

Range(s) == { s[i] : i \in 1..Len(s) }

(***************************************************************************)
(* Events fired on the adapter's emitters                                  *)
(***************************************************************************)
\* em: emitter, type: event type, id: test or suite ID, ids: list of IDs,
\* st: state or result, msg: message (<<>> is undefined), err: error text
Ev(em, type, id, ids, st, msg, err) ==
    [em |-> em, type |-> type, id |-> id, ids |-> ids, st |-> st,
     msg |-> msg, err |-> err]

LoadStartedEvent == Ev("tests", "started", <<>>, <<>>, "", <<>>, "")
LoadFinishedEvent(result, ids, err) ==
    Ev("tests", "finished", <<>>, ids, result, <<>>, err)
RunStartedEvent(tests) == Ev("testStates", "started", <<>>, tests, "", <<>>, "")
RunFinishedEvent == Ev("testStates", "finished", <<>>, <<>>, "", <<>>, "")
SuiteEvent(id, st, err) == Ev("testStates", "suite", id, <<>>, st, <<>>, err)
TestEvent(id, st, msg) == Ev("testStates", "test", id, <<>>, st, msg, "")
RetireEvent(tests) == Ev("retire", "retire", <<>>, tests, "", <<>>, "")

(***************************************************************************)
(* Guards of the state machine                                             *)
(***************************************************************************)
\* mutation: the load guard only looks at a load in progress
loadGuardOnlyLoading(st) == st # "loading"

\* load(): `if (this.state !== 'idle') return;`
loadGuard(st) == st = "idle"

\* mutation: the run guard only looks at a run in progress
runGuardOnlyRunning(st) == st \notin {"running", "cancelled"}

\* run(): `if (this.state !== 'idle') return;`
runGuard(st) == st = "idle"

\* mutation: cancel is accepted while loading as well
cancelGuardAnyBusy(st) == st \in {"running", "loading"}

\* cancel(): `if (this.state !== 'running') return;`
cancelGuard(st) == st = "running"

(***************************************************************************)
(* Stream parser (executeCmakeTestProcess): one line to lifecycle events   *)
(***************************************************************************)
CmakeTestEvent(type, index, name, line, success) ==
    [type |-> type, index |-> index, name |-> name, line |-> line,
     success |-> success]

\* the four line shapes, tried in this order; the first match wins and a
\* line matching none of them is dropped
parseLine(line) ==
    IF line.kind = "start" THEN
        << CmakeTestEvent("start", line.index, line.name, line, FALSE),
           CmakeTestEvent("output", line.index, line.name, line, FALSE) >>
    ELSE IF line.kind = "output" THEN
        << CmakeTestEvent("output", line.index, line.name, line, FALSE) >>
    ELSE IF line.kind = "passed" THEN
        << CmakeTestEvent("output", line.index, line.name, line, FALSE),
           CmakeTestEvent("end", line.index, line.name, line, TRUE) >>
    ELSE IF line.kind = "failed" THEN
        << CmakeTestEvent("output", line.index, line.name, line, FALSE),
           CmakeTestEvent("end", line.index, line.name, line, FALSE) >>
    ELSE << >>

(***************************************************************************)
(* runTests: the event callback passed to executeCmakeTestProcess          *)
(***************************************************************************)
\* mutation: output lines are reported like start events
onEventOutputFires(acc, event) ==
    IF event.type = "start" \/ event.type = "output" THEN
        [acc EXCEPT !.fired =
            Append(@, TestEvent(event.name, "running", <<>>))]
    ELSE IF event.type = "end" THEN
        [acc EXCEPT !.fired =
            Append(@, TestEvent(event.name,
                                IF event.success THEN "passed" ELSE "failed",
                                Join(acc.outputs[event.index])))]
    ELSE acc

\* mutation: one buffer for every index
onEventOneBuffer(acc, event) ==
    IF event.type = "start" THEN
        [acc EXCEPT !.fired =
            Append(@, TestEvent(event.name, "running", <<>>))]
    ELSE IF event.type = "output" THEN
        [acc EXCEPT !.outputs =
            [i \in DOMAIN acc.outputs |-> Append(acc.outputs[i], event.line)]]
    ELSE IF event.type = "end" THEN
        [acc EXCEPT !.fired =
            Append(@, TestEvent(event.name,
                                IF event.success THEN "passed" ELSE "failed",
                                Join(acc.outputs[event.index])))]
    ELSE acc

\* acc.fired: the events fired so far, acc.outputs: the outputs buffer
onEvent(acc, event) ==
    IF event.type = "start" THEN
        [acc EXCEPT !.fired =
            Append(@, TestEvent(event.name, "running", <<>>))]
    ELSE IF event.type = "output" THEN
        [acc EXCEPT !.outputs[event.index] = Append(@, event.line)]
    ELSE IF event.type = "end" THEN
        [acc EXCEPT !.fired =
            Append(@, TestEvent(event.name,
                                IF event.success THEN "passed" ELSE "failed",
                                Join(acc.outputs[event.index])))]
    ELSE acc

\* the callback applied to the events of one line, in order
RECURSIVE deliver(_, _)
deliver(acc, evs) ==
    IF evs = <<>> THEN acc
    ELSE deliver(onEvent(acc, Head(evs)), Tail(evs))

(***************************************************************************)
(* getTestIndexes                                                          *)
(***************************************************************************)
\* the flat test list for one requested ID
expandId(id, suiteDelimiter, allTests) ==
    IF suiteDelimiter # <<>> /\ EndsWith(id, suiteDelimiter \o SUITE_SUFFIX)
    THEN SelectSeq(allTests,
            LAMBDA test :
                StartsWith(test, SubSeq(id, 1, Len(id) - Len(SUITE_SUFFIX))))
    ELSE <<id>>

RECURSIVE flatTests(_, _, _)
flatTests(ids, suiteDelimiter, allTests) ==
    IF ids = <<>> THEN <<>>
    ELSE expandId(Head(ids), suiteDelimiter, allTests)
            \o flatTests(Tail(ids), suiteDelimiter, allTests)

getTestIndexes(ids, suiteDelimiter, allTests) ==
    IF Len(ids) = 0 THEN <<>>
    ELSE LET tests == flatTests(ids, suiteDelimiter, allTests)
         IN [i \in 1..Len(tests) |-> FindIndexPlus1(allTests, tests[i])]

(***************************************************************************)
(* Invocations and processes                                               *)
(***************************************************************************)
\* an in-flight load() or run(): pc is the await it is suspended at
\* ("config": getConfigStrings, "exec": the exit of its runner process)
Frame(kind, pc, tests, runAll, proc, outputs) ==
    [kind |-> kind, pc |-> pc, tests |-> tests, runAll |-> runAll,
     proc |-> proc, outputs |-> outputs]

NewFrameId ==
    CHOOSE i \in 1..(Cardinality(DOMAIN frames) + 1) : i \notin DOMAIN frames

AddFrame(fr) ==
    [i \in DOMAIN frames \cup {NewFrameId} |->
        IF i = NewFrameId THEN fr ELSE frames[i]]

RemoveFrame(f) == [i \in DOMAIN frames \ {f} |-> frames[i]]

\* the tests a runner process executes: the positions named on its command
\* line (-I 0,0,0,i1,i2,...), every test when none is named
Selected(names, testIndexes) ==
    IF testIndexes = <<>> THEN 1..Len(names)
    ELSE { i \in 1..Len(names) : i \in Range(testIndexes) }

\* a process spawned by loadCmakeTests (ctest --show-only=json-v1)
LoadProcess(owner) ==
    [kind |-> "load", owner |-> owner, alive |-> TRUE, killed |-> FALSE,
     spawnState |-> state, names |-> <<>>, tst |-> <<>>, nout |-> <<>>,
     banner |-> FALSE, exit |-> "none", evlog |-> <<>>]

\* a process spawned by scheduleCmakeTestProcess (ctest -V -I ...)
RunProcess(owner, names, testIndexes) ==
    [kind |-> "run", owner |-> owner, alive |-> TRUE, killed |-> FALSE,
     spawnState |-> state, names |-> names,
     tst |-> [i \in 1..Len(names) |->
                IF i \in Selected(names, testIndexes) THEN "pending"
                ELSE "skip"],
     nout |-> [i \in 1..Len(names) |-> 0],
     banner |-> FALSE, exit |-> "none", evlog |-> <<>>]

\* the process records kept when a new operation is accepted: the records of
\* exited processes are dropped once no process is left running
Retained(ps) ==
    IF \E p \in DOMAIN ps : ps[p].alive THEN ps ELSE <<>>

\* the adapter as its constructor leaves it
Constructed ==
    /\ state = "idle"
    /\ ctestPath = ""
    /\ cmakeTests = <<>>
    /\ currentTestProcess = NoProc
    /\ disposables = {"tests", "testStates", "autorun"}
    /\ disposed = {}
    /\ frames = <<>>
    /\ procs = <<>>
    /\ events = <<>>
    /\ nApi = 0
    /\ lastCall = "none"

adapterVars == <<state, ctestPath, cmakeTests, currentTestProcess, disposables,
                 disposed, frames, procs, events, nApi, lastCall>>

Init ==
    /\ Constructed
    /\ fnArg = <<>>
    /\ fnRet = <<>>

\* one more API call, of the given name
ApiCall(name) ==
    /\ nApi < MaxCalls
    /\ nApi' = nApi + 1
    /\ lastCall' = name
    /\ UNCHANGED <<fnArg, fnRet>>

(***************************************************************************)
(* load()                                                                  *)
(***************************************************************************)
\* load() up to its first await (getConfigStrings in loadTestSuite)
load ==
    /\ ApiCall("load")
    /\ IF ~loadGuard(state) THEN
            UNCHANGED <<state, ctestPath, cmakeTests, currentTestProcess,
                        disposables, disposed, frames, procs, events>>
       ELSE
            /\ state' = "loading"
            /\ events' = << LoadStartedEvent >>
            /\ procs' = Retained(procs)
            /\ frames' = AddFrame(Frame("load", "config", <<>>, FALSE,
                                        NoProc, <<>>))
            /\ UNCHANGED <<ctestPath, cmakeTests, currentTestProcess,
                           disposables, disposed>>

\* mutation: the reset to idle is skipped once the state has been changed
\* by somebody else
finalStateUnlessCancelled(st) == IF st = "cancelled" THEN st ELSE "idle"

\* the last statement of load() and of run(): `this.state = 'idle';`
finalState(st) == "idle"

\* mutation: the state is reset without the finished event
loadSettleSilent(f, result, ids, err) ==
    /\ events' = events
    /\ state' = finalState(state)
    /\ frames' = RemoveFrame(f)

\* the tail of load(): the finished event, then the reset to idle
loadSettle(f, result, ids, err) ==
    /\ events' = Append(events, LoadFinishedEvent(result, ids, err))
    /\ state' = finalState(state)
    /\ frames' = RemoveFrame(f)

\* loadTestSuite fails before the CTest path is stored: getConfigStrings
\* rejects, or getCtestPath throws (CacheNotFoundError is swallowed under
\* the default configuration and yields no suite)
loadTestSuiteEarlyFailure(f, outcome) ==
    /\ f \in DOMAIN frames
    /\ frames[f].kind = "load"
    /\ frames[f].pc = "config"
    /\ outcome \in {"configError", "cacheNotFound", "cacheNotFoundDefault"}
    /\ IF outcome = "cacheNotFoundDefault"
       THEN loadSettle(f, "undefined", <<>>, "")
       ELSE loadSettle(f, "error", <<>>, outcome)
    /\ UNCHANGED <<ctestPath, cmakeTests, currentTestProcess, disposables,
                   disposed, procs, nApi, lastCall, fnArg, fnRet>>

\* loadTestSuite stores the CTest path and calls loadCmakeTests, which
\* rejects at once (spawn without pid) or spawns; getCtestPath has just read
\* the cache file in the directory, so the directory check passes
loadTestSuiteSpawn(f, path, outcome) ==
    /\ f \in DOMAIN frames
    /\ frames[f].kind = "load"
    /\ frames[f].pc = "config"
    /\ path \in CtestPaths
    /\ outcome \in {"cannotSpawn", "spawned"}
    /\ ctestPath' = path
    /\ IF outcome = "spawned" THEN
            /\ procs' = Append(procs, LoadProcess(f))
            /\ frames' = [frames EXCEPT ![f].pc = "exec",
                                        ![f].proc = Len(procs) + 1]
            /\ UNCHANGED <<state, events>>
       ELSE
            /\ loadSettle(f, "error", <<>>, outcome)
            /\ UNCHANGED procs
    /\ UNCHANGED <<cmakeTests, currentTestProcess, disposables, disposed,
                   nApi, lastCall, fnArg, fnRet>>

\* the listing process exits and its stdout parses as the manifest
loadCmakeTestsResolve(p, manifest) ==
    /\ p \in DOMAIN procs
    /\ procs[p].kind = "load"
    /\ procs[p].alive
    /\ manifest \in Manifests
    /\ procs' = [procs EXCEPT ![p].alive = FALSE, ![p].exit = "normal"]
    /\ cmakeTests' = manifest
    /\ loadSettle(procs[p].owner, "suite", manifest, "")
    /\ UNCHANGED <<ctestPath, currentTestProcess, disposables, disposed,
                   nApi, lastCall, fnArg, fnRet>>

\* the listing process exits and its stdout does not parse as JSON
loadCmakeTestsReject(p) ==
    /\ p \in DOMAIN procs
    /\ procs[p].kind = "load"
    /\ procs[p].alive
    /\ procs' = [procs EXCEPT ![p].alive = FALSE, ![p].exit = "normal"]
    /\ loadSettle(procs[p].owner, "error", <<>>, "parseError")
    /\ UNCHANGED <<ctestPath, cmakeTests, currentTestProcess, disposables,
                   disposed, nApi, lastCall, fnArg, fnRet>>

(***************************************************************************)
(* run()                                                                   *)
(***************************************************************************)
\* runTests(): `if (this.state === 'cancelled')` on entry
runTestsEntryCancelled(st) == st = "cancelled"

\* mutation: the finished event is fired before the state of the root suite
runTailFinishedFirst(runAll, ok, err) ==
    << RunFinishedEvent >>
    \o (IF runAll
        THEN << SuiteEvent(ROOT_SUITE_ID, IF ok THEN "completed" ELSE "errored",
                           IF ok THEN "" ELSE err) >>
        ELSE << >>)

\* the events run() fires after runTests settled, the finished event last
runTail(runAll, ok, err) ==
    (IF runAll
     THEN << SuiteEvent(ROOT_SUITE_ID, IF ok THEN "completed" ELSE "errored",
                        IF ok THEN "" ELSE err) >>
     ELSE << >>)
    \o << RunFinishedEvent >>

\* run() up to its first await (getConfigStrings in runTests)
run(tests) ==
    /\ ApiCall("run")
    /\ IF ~runGuard(state) THEN
            UNCHANGED <<state, ctestPath, cmakeTests, currentTestProcess,
                        disposables, disposed, frames, procs, events>>
       ELSE
            LET runAll == Len(tests) = 1 /\ tests[1] = ROOT_SUITE_ID
                arg == IF runAll THEN <<>> ELSE tests
                head == << RunStartedEvent(tests) >>
                          \o (IF runAll
                              THEN << SuiteEvent(ROOT_SUITE_ID, "running", "") >>
                              ELSE << >>)
                    \* runTests reads the state that run() has just set
            IN  IF runTestsEntryCancelled("running") THEN
                    \* runTests retires the tests and returns at once
                    /\ events' = head \o << RetireEvent(arg) >>
                                    \o runTail(runAll, TRUE, "")
                    /\ state' = finalState("running")
                    /\ UNCHANGED <<frames, currentTestProcess>>
                ELSE
                    /\ state' = "running"
                    /\ events' = head
                    /\ frames' = AddFrame(Frame("run", "config", arg, runAll,
                                                NoProc, <<>>))
                    /\ UNCHANGED currentTestProcess
            /\ procs' = Retained(procs)
            /\ UNCHANGED <<ctestPath, cmakeTests, disposables, disposed>>

\* mutation: runTests has no `finally`, the process handle is kept
runSettleKeepsHandle(f, ok, err) ==
    /\ currentTestProcess' = currentTestProcess
    /\ events' = events \o runTail(frames[f].runAll, ok, err)
    /\ state' = finalState(state)
    /\ frames' = RemoveFrame(f)

\* the tail of run() once runTests has settled: the `finally` of runTests
\* clears the process handle, then the finished event and the reset to idle
runSettle(f, ok, err) ==
    /\ currentTestProcess' = NoProc
    /\ events' = events \o runTail(frames[f].runAll, ok, err)
    /\ state' = finalState(state)
    /\ frames' = RemoveFrame(f)

\* runTests fails before a process exists: getConfigStrings rejects or
\* scheduleCmakeTestProcess throws
runTestsFailure(f, outcome) ==
    /\ f \in DOMAIN frames
    /\ frames[f].kind = "run"
    /\ frames[f].pc = "config"
    /\ outcome \in {"configError", "cannotSpawn"}
    /\ runSettle(f, FALSE, outcome)
    /\ UNCHANGED <<ctestPath, cmakeTests, disposables, disposed, procs,
                   nApi, lastCall, fnArg, fnRet>>

\* runTests computes the test indexes and schedules the runner process
runTestsSchedule(f, suiteDelimiter) ==
    /\ f \in DOMAIN frames
    /\ frames[f].kind = "run"
    /\ frames[f].pc = "config"
    /\ suiteDelimiter \in Delimiters
    /\ ctestPath # ""
    /\ LET testIndexes == getTestIndexes(frames[f].tests, suiteDelimiter,
                                         cmakeTests)
       IN  /\ procs' = Append(procs, RunProcess(f, cmakeTests, testIndexes))
           /\ currentTestProcess' = Len(procs) + 1
           /\ frames' = [frames EXCEPT
                            ![f].pc = "exec",
                            ![f].proc = Len(procs) + 1,
                            ![f].outputs = [i \in 1..Len(cmakeTests) |-> <<>>]]
    /\ UNCHANGED <<state, ctestPath, cmakeTests, disposables, disposed,
                   events, nApi, lastCall, fnArg, fnRet>>

(***************************************************************************)
(* The runner process and the delivery of its output                       *)
(***************************************************************************)
\* the process prints one line; the parser turns it into events and the
\* callback of the run that owns the process handles them in order
emitLine(p, line, tst2, nout2, banner2) ==
    LET f == procs[p].owner
        evs == parseLine(line)
        acc == deliver([fired |-> <<>>, outputs |-> frames[f].outputs], evs)
    IN  /\ procs' = [procs EXCEPT ![p].tst = tst2, ![p].nout = nout2,
                                  ![p].banner = banner2,
                                  ![p].evlog = @ \o evs]
        /\ events' = events \o acc.fired
        /\ frames' = [frames EXCEPT ![f].outputs = acc.outputs]
        /\ UNCHANGED <<state, ctestPath, cmakeTests, currentTestProcess,
                       disposables, disposed, nApi, lastCall, fnArg, fnRet>>

RunProcessAlive(p) ==
    /\ p \in DOMAIN procs
    /\ procs[p].kind = "run"
    /\ procs[p].alive

\* the number of plain output lines the process has printed
RECURSIVE Sum(_)
Sum(counts) == IF counts = <<>> THEN 0 ELSE Head(counts) + Sum(Tail(counts))

OutputLines(p) == Sum(procs[p].nout)

\* "Start i: name", printed after the banner
processStartLine(p, i) ==
    /\ RunProcessAlive(p)
    /\ i \in DOMAIN procs[p].tst
    /\ procs[p].tst[i] = "pending"
    /\ procs[p].banner
    /\ emitLine(p, Line("start", i, procs[p].names[i], 0),
                [procs[p].tst EXCEPT ![i] = "started"],
                procs[p].nout, procs[p].banner)

\* "i: text"
processOutputLine(p, i) ==
    /\ RunProcessAlive(p)
    /\ i \in DOMAIN procs[p].tst
    /\ procs[p].tst[i] = "started"
    /\ OutputLines(p) < MaxOut
    /\ emitLine(p, Line("output", i, procs[p].names[i], procs[p].nout[i] + 1),
                procs[p].tst,
                [procs[p].nout EXCEPT ![i] = @ + 1], procs[p].banner)

\* "i/n Test #i: name ... Passed" or "... Failed"
processResultLine(p, i, success) ==
    /\ RunProcessAlive(p)
    /\ i \in DOMAIN procs[p].tst
    /\ procs[p].tst[i] = "started"
    /\ success \in BOOLEAN
    /\ emitLine(p, Line(IF success THEN "passed" ELSE "failed", i,
                        procs[p].names[i], procs[p].nout[i] + 1),
                [procs[p].tst EXCEPT ![i] = "done"],
                procs[p].nout, procs[p].banner)

\* the banner the runner prints first ("Test project ..."), a line
\* attributable to no test
processOtherLine(p) ==
    /\ RunProcessAlive(p)
    /\ ~procs[p].banner
    /\ emitLine(p, Line("other", 0, <<>>, 0), procs[p].tst, procs[p].nout,
                TRUE)

\* the process exits: normally once every selected test has ended, or
\* abnormally (crash, kill) at any point; executeCmakeTestProcess resolves
\* and run() runs to its end
processExit(p, normal) ==
    /\ RunProcessAlive(p)
    /\ normal \in BOOLEAN
    /\ normal => \A i \in DOMAIN procs[p].tst :
                    procs[p].tst[i] \in {"skip", "done"}
    /\ procs' = [procs EXCEPT ![p].alive = FALSE,
                              ![p].exit = IF normal THEN "normal"
                                          ELSE "abnormal"]
    /\ runSettle(procs[p].owner, TRUE, "")
    /\ UNCHANGED <<ctestPath, cmakeTests, disposables, disposed, nApi,
                   lastCall, fnArg, fnRet>>

(***************************************************************************)
(* cancel() and dispose()                                                  *)
(***************************************************************************)
\* mutation: cancel sends no termination signal
cancelTargetsNone(proc) == {}

\* cancel(): `if (this.currentTestProcess) cancelCmakeTestProcess(...)`
cancelTargets(proc) == IF proc # NoProc THEN {proc} ELSE {}

\* cancelCmakeTestProcess: the process receives a termination signal
cancelCmakeTestProcess(ps, targets) ==
    [p \in DOMAIN ps |->
        IF p \in targets THEN [ps[p] EXCEPT !.killed = TRUE] ELSE ps[p]]

\* the body of cancel()
cancelBody ==
    IF ~cancelGuard(state) THEN UNCHANGED <<state, procs>>
    ELSE /\ procs' = cancelCmakeTestProcess(procs,
                                            cancelTargets(currentTestProcess))
         /\ state' = "cancelled"

cancel ==
    /\ ApiCall("cancel")
    /\ cancelBody
    /\ UNCHANGED <<ctestPath, cmakeTests, currentTestProcess, disposables,
                   disposed, frames, events>>

dispose ==
    /\ ApiCall("dispose")
    /\ cancelBody
    /\ disposed' = disposed \cup disposables
    /\ disposables' = {}
    /\ UNCHANGED <<ctestPath, cmakeTests, currentTestProcess, frames, events>>

(***************************************************************************)
(* Specification                                                           *)
(***************************************************************************)
ProcIds == 1..MaxCalls
TestIndexes == UNION { DOMAIN m : m \in Manifests }
FrameIds == 1..MaxCalls

\* the asynchronous continuations: every step that is not an API call
Continue ==
    \/ \E f \in FrameIds :
        \E o \in {"configError", "cacheNotFound", "cacheNotFoundDefault"} :
            loadTestSuiteEarlyFailure(f, o)
    \/ \E f \in FrameIds, path \in CtestPaths :
        \E o \in {"cannotSpawn", "spawned"} :
            loadTestSuiteSpawn(f, path, o)
    \/ \E p \in ProcIds, m \in Manifests : loadCmakeTestsResolve(p, m)
    \/ \E p \in ProcIds : loadCmakeTestsReject(p)
    \/ \E f \in FrameIds : \E o \in {"configError", "cannotSpawn"} :
            runTestsFailure(f, o)
    \/ \E f \in FrameIds, d \in Delimiters : runTestsSchedule(f, d)
    \/ \E p \in ProcIds, i \in TestIndexes : processStartLine(p, i)
    \/ \E p \in ProcIds, i \in TestIndexes : processOutputLine(p, i)
    \/ \E p \in ProcIds, i \in TestIndexes, ok \in BOOLEAN :
            processResultLine(p, i, ok)
    \/ \E p \in ProcIds : processOtherLine(p)
    \/ \E p \in ProcIds, normal \in BOOLEAN : processExit(p, normal)

Next ==
    \/ load
    \/ \E tests \in Requests : run(tests)
    \/ cancel
    \/ dispose
    \/ Continue

Spec == Init /\ [][Next]_vars

\* every pending continuation is eventually run and every spawned process
\* eventually prints its next line or exits
FairSpec == Spec /\ WF_vars(Continue)

(***************************************************************************)
(* Properties                                                              *)
(***************************************************************************)
\* an API call of one of the given names is made by this step
Called(names) == nApi' = nApi + 1 /\ lastCall' \in names

LiveRunProcs == { p \in DOMAIN procs : procs[p].kind = "run" /\ procs[p].alive }

\* C1: at most one load() or run() invocation is in flight at any time, so
\* a load and a run are never in flight together
C1_AtMostOneInFlight == Cardinality(DOMAIN frames) <= 1

\* a load() was called while a run had its runner process going
C1_Witness ==
    /\ lastCall = "load"
    /\ \E f \in DOMAIN frames :
        /\ frames[f].kind = "run"
        /\ frames[f].proc \in LiveRunProcs

\* C2: a load() or run() called while the state is not idle fires no event,
\* spawns no process, starts no invocation and leaves the state, the
\* descriptor list and the current process handle unchanged
C2_IgnoredCallIsNoOp ==
    [][(Called({"load", "run"}) /\ state # "idle")
        => UNCHANGED <<state, cmakeTests, ctestPath, currentTestProcess,
                       events, procs, frames>>]_vars

\* a run() was called after the run in flight had been cancelled
C2_Witness == lastCall = "run" /\ state = "cancelled"

\* C3: a cancel() called while the state is idle, loading or cancelled
\* signals no process and leaves the state unchanged
C3_CancelNoOpUnlessRunning ==
    [][(Called({"cancel"}) /\ state # "running")
        => UNCHANGED <<state, procs>>]_vars

\* a cancel() was called while the listing process of a load was running
C3_Witness ==
    /\ lastCall = "cancel"
    /\ state = "loading"
    /\ \E p \in DOMAIN procs : procs[p].kind = "load" /\ procs[p].alive

StateTransitions ==
    { <<"idle", "loading">>, <<"loading", "idle">>, <<"idle", "running">>,
      <<"running", "idle">>, <<"running", "cancelled">>,
      <<"cancelled", "idle">> }

\* C4: the state starts at idle and every change of it is one of
\* idle->loading, loading->idle, idle->running, running->idle,
\* running->cancelled, cancelled->idle
C4_StateTransitions ==
    /\ state = "idle"
    /\ [][state' # state => <<state, state'>> \in StateTransitions]_vars

\* dispose() cancelled the run in flight
C4_Witness == lastCall = "dispose" /\ state = "cancelled"

\* C5: every accepted load() or run() eventually returns the state to idle,
\* every spawned process eventually exiting
C5_EventuallyIdle == (state # "idle") ~> (state = "idle")

\* a cancelled run whose process was killed has returned to idle
C5_Witness ==
    /\ state = "idle"
    /\ lastCall = "cancel"
    /\ \E p \in DOMAIN procs :
        procs[p].kind = "run" /\ procs[p].killed /\ ~procs[p].alive

\* C6: once a cancel has been accepted during a run, no runner process is
\* spawned for that run (no process is spawned in state cancelled)
C6_NoSpawnAfterCancel ==
    \A p \in DOMAIN procs :
        procs[p].kind = "run" => procs[p].spawnState # "cancelled"

\* C7: when the state is cancelled, every runner process that the run had
\* spawned by the time of the cancel and that has not exited has received
\* the termination call
C7_CancelKillsBeforeCancelled ==
    state = "cancelled" =>
        \A p \in LiveRunProcs :
            procs[p].spawnState = "running" => procs[p].killed

\* the run is cancelled and its killed process has not exited yet
C7_Witness ==
    /\ state = "cancelled"
    /\ \E p \in LiveRunProcs : procs[p].killed /\ currentTestProcess = p

\* the number of retire events that name the test
RetiredCount(evs, test) ==
    Cardinality({ k \in 1..Len(evs) :
                    evs[k].type = "retire" /\ test \in Range(evs[k].ids) })

\* C8: when a run cancelled while its runner process was going ends, every
\* test the process was to run and had not started has been retired exactly
\* once
C8_UnstartedTestsRetiredOnce ==
    [][(state = "cancelled" /\ state' = "idle")
        => \A p \in DOMAIN procs' :
            (procs'[p].kind = "run" /\ procs'[p].spawnState = "running") =>
                \A i \in DOMAIN procs'[p].tst :
                    procs'[p].tst[i] = "pending" =>
                        RetiredCount(events', procs'[p].names[i]) = 1]_vars

IsTestEvent(e, states) ==
    e.em = "testStates" /\ e.type = "test" /\ e.st \in states

TerminalStates == {"passed", "failed", "skipped", "errored"}

\* C9: when the finished event of a run is fired, every test reported as
\* running during the run has received a terminal state
C9_StartedTestsTerminated ==
    (events # <<>> /\ events[Len(events)] = RunFinishedEvent) =>
        \A k \in 1..Len(events) :
            IsTestEvent(events[k], {"running"}) =>
                \E j \in (k + 1)..Len(events) :
                    /\ IsTestEvent(events[j], TerminalStates)
                    /\ events[j].id = events[k].id

\* the types of the lifecycle events of one test index, in delivery order
RECURSIVE TypesOf(_, _)
TypesOf(evlog, i) ==
    IF evlog = <<>> THEN <<>>
    ELSE (IF Head(evlog).index = i THEN <<Head(evlog).type>> ELSE <<>>)
            \o TypesOf(Tail(evlog), i)

\* the states reported for one test ID, in firing order
RECURSIVE StatesOf(_, _)
StatesOf(evs, id) ==
    IF evs = <<>> THEN <<>>
    ELSE (IF IsTestEvent(Head(evs), {"running"} \cup TerminalStates)
             /\ Head(evs).id = id
          THEN <<Head(evs).st>> ELSE <<>>)
            \o StatesOf(Tail(evs), id)

\* start, then outputs, then end
IsLifecycle(types) ==
    /\ Len(types) >= 2
    /\ types[1] = "start"
    /\ types[Len(types)] = "end"
    /\ \A k \in 2..(Len(types) - 1) : types[k] = "output"

\* C10: for every test run by a process that exited normally, the events of
\* the test were delivered as start, outputs, end with one start and one
\* end, and reported as running once and then as passed or failed once
C10_LifecycleOrder ==
    \A p \in DOMAIN procs :
        (procs[p].kind = "run" /\ procs[p].exit = "normal") =>
            \A i \in DOMAIN procs[p].tst :
                procs[p].tst[i] # "skip" =>
                    /\ IsLifecycle(TypesOf(procs[p].evlog, i))
                    /\ LET sts == StatesOf(events, procs[p].names[i])
                       IN  /\ Len(sts) = 2
                           /\ sts[1] = "running"
                           /\ sts[2] \in {"passed", "failed"}

\* two tests ran interleaved (the second started before the first ended)
\* and the process exited normally
C10_Witness ==
    \E p \in DOMAIN procs :
        /\ procs[p].kind = "run"
        /\ procs[p].exit = "normal"
        /\ Len(procs[p].evlog) >= 6
        /\ procs[p].evlog[1].type = "start"
        /\ procs[p].evlog[3].type = "start"
        /\ procs[p].evlog[3].index # procs[p].evlog[1].index

(***************************************************************************)
(* The stream parser and the run callback on one line stream               *)
(***************************************************************************)
\* length of the enumerated line streams
MaxStream == 3

NameOf(index) == IF index = 1 THEN NameAX ELSE NameAY

\* start(1), output(1), start(2), output(2), passed(1), output(2), failed(2)
InterleavedStream ==
    << Line("start", 1, NameAX, 0), Line("output", 1, NameAX, 1),
       Line("start", 2, NameAY, 0), Line("output", 2, NameAY, 1),
       Line("passed", 1, NameAX, 0), Line("output", 2, NameAY, 2),
       Line("failed", 2, NameAY, 0) >>

StreamLines ==
    { Line(kind, index, NameOf(index), 0) :
        kind \in {"start", "output", "passed", "failed", "other"},
        index \in 1..2 }

Streams ==
    {InterleavedStream}
        \cup UNION { [1..n -> StreamLines] : n \in 0..MaxStream }

\* the run callback starts with `let outputs: string[][] = []`
StreamInit ==
    /\ Constructed
    /\ fnArg \in Streams
    /\ fnRet = [pos |-> 0, emitted |-> <<>>, fired |-> <<>>,
                 outputs |-> [i \in 1..2 |-> <<>>]]

\* the parser reads the next line and hands its events to the callback
readLine ==
    /\ fnRet.pos < Len(fnArg)
    /\ LET evs == parseLine(fnArg[fnRet.pos + 1])
           acc == deliver([fired |-> fnRet.fired,
                           outputs |-> fnRet.outputs], evs)
       IN  fnRet' = [pos |-> fnRet.pos + 1,
                      emitted |-> fnRet.emitted \o evs,
                      fired |-> acc.fired,
                      outputs |-> acc.outputs]
    /\ UNCHANGED <<adapterVars, fnArg>>

StreamNext == readLine

StreamSpec == StreamInit /\ [][StreamNext]_vars

\* the events the parser emitted, as <<type, index>> pairs
EmittedShape ==
    [i \in 1..Len(fnRet.emitted) |->
        <<fnRet.emitted[i].type, fnRet.emitted[i].index>>]

\* the line break separated message split back into its lines
MessageLines(msg) == SelectSeq(msg, LAMBDA l : l # LineBreak)

\* the messages of the passed/failed events fired, in order
FiredMessages ==
    LET ends == SelectSeq(fnRet.fired, LAMBDA e : e.st # "running")
    IN  [i \in 1..Len(ends) |-> MessageLines(ends[i].msg)]

InterleavedDone ==
    fnArg = InterleavedStream /\ fnRet.pos = Len(InterleavedStream)

\* C11 as stated: after the interleaved stream the message of test 1 is
\* exactly its two output lines and the message of test 2 exactly its three
C11_MessagesTwoAndThreeLines ==
    InterleavedDone =>
        /\ Len(FiredMessages) = 2
        /\ Len(FiredMessages[1]) = 2
        /\ Len(FiredMessages[2]) = 3

\* C11: on the interleaved stream the parser emits start+output for test 1,
\* output for 1, start+output for 2, output for 2, output+end for 1, output
\* for 2, output+end for 2, and the message of each test is every line
\* forwarded for it, in stream order: its start line, its plain output
\* lines and its fnRet line (three lines for test 1, four for test 2)
C11_InterleavedStream ==
    InterleavedDone =>
        /\ EmittedShape =
            << <<"start", 1>>, <<"output", 1>>, <<"output", 1>>,
               <<"start", 2>>, <<"output", 2>>, <<"output", 2>>,
               <<"output", 1>>, <<"end", 1>>,
               <<"output", 2>>,
               <<"output", 2>>, <<"end", 2>> >>
        /\ fnRet.fired =
            << TestEvent(NameAX, "running", <<>>),
               TestEvent(NameAY, "running", <<>>),
               TestEvent(NameAX, "passed",
                         Join(SelectSeq(InterleavedStream,
                                        LAMBDA l : l.index = 1))),
               TestEvent(NameAY, "failed",
                         Join(SelectSeq(InterleavedStream,
                                        LAMBDA l : l.index = 2))) >>
        /\ Len(FiredMessages[1]) = 3
        /\ Len(FiredMessages[2]) = 4

C11_Witness ==
    /\ InterleavedDone
    /\ Len(fnRet.fired) = 4
    /\ fnRet.fired[3].st = "passed"
    /\ fnRet.fired[4].st = "failed"

(***************************************************************************)
(* loadTestSuite: conversion of the test list to the Test Explorer tree    *)
(***************************************************************************)
\* number of tests in the enumerated manifests
MaxTests == 3

\* test names the runner may report (CTest accepts any character)
TreeNames ==
    { <<"a", "/", "x">>, <<"a", "/", "y">>, <<"b">>, <<"a">>,
      <<"a", "/", "b", "/", "x">>, <<"a", "/">>, <<"a", "/", "*">>,
      <<"*">> }

\* lists of pairwise distinct names
TreeManifests ==
    { m \in UNION { [1..n -> TreeNames] : n \in 0..MaxTests } :
        \A i, j \in DOMAIN m : i # j => m[i] # m[j] }

\* the text 'undefined'
Undefined == <<"u", "n", "d", "e", "f", "i", "n", "e", "d">>

\* position of the first occurrence of sep in s, 0 when there is none
IndexOf(s, sep) ==
    LET hits == { i \in 1..(Len(s) - Len(sep) + 1) :
                    SubSeq(s, i, i + Len(sep) - 1) = sep }
    IN  IF hits = {} THEN 0
        ELSE CHOOSE i \in hits : \A j \in hits : i <= j

\* String.prototype.split with a non-empty separator
RECURSIVE split(_, _)
split(s, sep) ==
    LET i == IndexOf(s, sep)
    IN  IF i = 0 THEN << s >>
        ELSE << SubSeq(s, 1, i - 1) >>
                \o split(SubSeq(s, i + Len(sep), Len(s)), sep)

\* a node of the tree; parent is the position of the suite whose children
\* list holds it (0 for the root), children are kept in insertion order
TreeNode(type, id, label, parent, tooltip) ==
    [type |-> type, id |-> id, label |-> label, parent |-> parent,
     tooltip |-> tooltip]

rootSuite ==
    TreeNode("suite", ROOT_SUITE_ID, <<"C", "M", "a", "k", "e">>, 0, <<>>)

\* the inner loop over the suite names of one test: finds or creates the
\* child suite of each level; returns the nodes and the innermost suite
RECURSIVE descend(_, _, _, _, _)
descend(nodes, suite, path, currentId, suiteDelimiter) ==
    IF path = <<>> THEN [nodes |-> nodes, suite |-> suite]
    ELSE
        LET name == Head(path)
            nextId == currentId \o name \o suiteDelimiter
            found == { i \in 1..Len(nodes) :
                        /\ nodes[i].parent = suite
                        /\ nodes[i].type = "suite"
                        /\ nodes[i].id = nextId \o SUITE_SUFFIX }
        IN  IF found # {}
            THEN descend(nodes,
                         CHOOSE i \in found : \A j \in found : i <= j,
                         Tail(path), nextId, suiteDelimiter)
            ELSE descend(Append(nodes,
                                TreeNode("suite", nextId \o SUITE_SUFFIX,
                                         name, suite,
                                         SubSeq(nextId, 1,
                                                Len(nextId)
                                                    - Len(suiteDelimiter)))),
                         Len(nodes) + 1, Tail(path), nextId, suiteDelimiter)

\* mutation: the label is the last segment even when it is empty
testLabelLastSegment(path) == path[Len(path)]

\* `path.pop() || 'undefined'`
testLabel(path) ==
    IF path[Len(path)] = <<>> THEN Undefined ELSE path[Len(path)]

\* one iteration of the loop over the tests (hierarchical suite)
addTest(nodes, name, suiteDelimiter) ==
    LET path == split(name, suiteDelimiter)
        d == descend(nodes, 1, SubSeq(path, 1, Len(path) - 1), <<>>,
                     suiteDelimiter)
    IN  Append(d.nodes, TreeNode("test", name, testLabel(path), d.suite, name))

\* one top-level suite containing all tests
flatSuite(tests) ==
    << rootSuite >>
        \o [i \in 1..Len(tests) |->
                TreeNode("test", tests[i], tests[i], 1, <<>>)]

\* the children list of the node at position n
children(nodes, n) ==
    LET idx == { i \in 1..Len(nodes) : nodes[i].parent = n }
        RECURSIVE sorted(_)
        sorted(rest) ==
            IF rest = {} THEN <<>>
            ELSE LET i == CHOOSE x \in rest : \A y \in rest : x <= y
                 IN  << i >> \o sorted(rest \ {i})
    IN  sorted(idx)

\* mutation: only the direct children that are leaves are collected
collectDirectLeaves(nodes, item) ==
    SelectSeq(children(nodes, item),
              LAMBDA child : children(nodes, child) = <<>>)

\* collectTestItems: the leaves under an item, depth first
RECURSIVE collectTestItems(_, _)
collectTestItems(nodes, item) ==
    LET kids == children(nodes, item)
        RECURSIVE each(_)
        each(rest) ==
            IF rest = <<>> THEN <<>>
            ELSE (IF children(nodes, Head(rest)) = <<>>
                  THEN << Head(rest) >>
                  ELSE collectTestItems(nodes, Head(rest)))
                    \o each(Tail(rest))
    IN  IF kids = <<>> THEN << item >> ELSE each(kids)

\* the build starts from the empty root suite
TreeInit ==
    /\ Constructed
    /\ fnArg \in [tests : TreeManifests, suiteDelimiter : Delimiters]
    /\ fnRet = [pos |-> 0, done |-> FALSE, nodes |-> << rootSuite >>]

\* `if (!suiteDelimiter)`: the flat suite, built in one step
buildFlatSuite ==
    /\ ~fnRet.done
    /\ fnArg.suiteDelimiter = <<>>
    /\ fnRet' = [pos |-> Len(fnArg.tests), done |-> TRUE,
                 nodes |-> flatSuite(fnArg.tests)]
    /\ UNCHANGED <<adapterVars, fnArg>>

\* the hierarchical suite: the next iteration of `for (let test of ...)`
buildHierarchicalSuite ==
    /\ ~fnRet.done
    /\ fnArg.suiteDelimiter # <<>>
    /\ fnRet.pos < Len(fnArg.tests)
    /\ fnRet' = [pos |-> fnRet.pos + 1,
                 done |-> fnRet.pos + 1 = Len(fnArg.tests),
                 nodes |-> addTest(fnRet.nodes, fnArg.tests[fnRet.pos + 1],
                                   fnArg.suiteDelimiter)]
    /\ UNCHANGED <<adapterVars, fnArg>>

\* the loop over an empty test list returns the root suite at once
buildEmptySuite ==
    /\ ~fnRet.done
    /\ fnArg.suiteDelimiter # <<>>
    /\ fnArg.tests = <<>>
    /\ fnRet' = [fnRet EXCEPT !.done = TRUE]
    /\ UNCHANGED <<adapterVars, fnArg>>

TreeNext == buildFlatSuite \/ buildHierarchicalSuite \/ buildEmptySuite

TreeSpec == TreeInit /\ [][TreeNext]_vars

\* positions of the test nodes and of the suite nodes of the tree
TestNodes == { i \in 1..Len(fnRet.nodes) : fnRet.nodes[i].type = "test" }
SuiteNodes == { i \in 1..Len(fnRet.nodes) : fnRet.nodes[i].type = "suite" }

\* C14 as stated: once the tree of pairwise distinct names is built, test
\* IDs are pairwise distinct and no suite ID, the root's included, equals a
\* test ID
C14_SuiteAndTestIdsDisjoint ==
    fnRet.done =>
        /\ \A i, j \in TestNodes :
                i # j => fnRet.nodes[i].id # fnRet.nodes[j].id
        /\ \A i \in SuiteNodes : \A j \in TestNodes :
                fnRet.nodes[i].id # fnRet.nodes[j].id

\* the IDs of the leaves of the built tree, collected depth first
CollectedIds ==
    LET leaves == collectTestItems(fnRet.nodes, 1)
    IN  [i \in 1..Len(leaves) |-> fnRet.nodes[leaves[i]].id]

PositionIn(list, id) == CHOOSE i \in 1..Len(list) : list[i] = id

\* the suite whose children list holds the leaf of a test
ParentOf(id) ==
    fnRet.nodes[CHOOSE i \in TestNodes : fnRet.nodes[i].id = id].parent

RECURSIVE Accumulated(_, _, _)
Accumulated(path, k, suiteDelimiter) ==
    IF k = 0 THEN <<>>
    ELSE Accumulated(path, k - 1, suiteDelimiter)
            \o path[k] \o suiteDelimiter

\* the suites above a node, outermost first, the root left out
RECURSIVE SuitesAbove(_)
SuitesAbove(n) ==
    IF n <= 1 THEN <<>>
    ELSE Append(SuitesAbove(fnRet.nodes[n].parent), n)

\* the descriptors handled so far
Handled == SubSeq(fnArg.tests, 1, fnRet.pos)

\* the suite IDs the handled descriptors call for
ExpectedSuiteIds ==
    UNION { { Accumulated(split(Handled[t], fnArg.suiteDelimiter), k,
                          fnArg.suiteDelimiter) \o SUITE_SUFFIX :
                k \in 1..(Len(split(Handled[t], fnArg.suiteDelimiter)) - 1) } :
            t \in 1..Len(Handled) }

\* the leaf of a handled descriptor: one leaf, its ID the full name, under
\* one nested suite per preceding segment
LeafUnderNestedSuites(name) ==
    LET path == split(name, fnArg.suiteDelimiter)
        leaves == { i \in TestNodes : fnRet.nodes[i].id = name }
    IN  /\ Cardinality(leaves) = 1
        /\ \A i \in leaves :
            LET above == SuitesAbove(fnRet.nodes[i].parent)
            IN  /\ Len(above) = Len(path) - 1
                /\ \A k \in 1..Len(above) :
                    /\ fnRet.nodes[above[k]].type = "suite"
                    /\ fnRet.nodes[above[k]].label = path[k]
                    /\ fnRet.nodes[above[k]].id =
                        Accumulated(path, k, fnArg.suiteDelimiter)
                            \o SUITE_SUFFIX

\* one suite node per distinct accumulated path: a suite exists from the
\* first descriptor that calls for it and is never created twice
OneSuitePerPath ==
    /\ { fnRet.nodes[i].id : i \in SuiteNodes \ {1} } = ExpectedSuiteIds
    /\ Cardinality(SuiteNodes \ {1}) = Cardinality(ExpectedSuiteIds)

\* the label of the leaf of a name
LabelOf(name) ==
    fnRet.nodes[CHOOSE i \in TestNodes : fnRet.nodes[i].id = name].label

LastSegment(name) ==
    LET path == split(name, fnArg.suiteDelimiter) IN path[Len(path)]

\* C16 as stated: with a non-empty delimiter each descriptor gives one leaf
\* (ID the full name, label the last segment) under one nested suite per
\* preceding segment, and there is one suite node per accumulated path
C16_LeafLabelIsLastSegment ==
    fnArg.suiteDelimiter # <<>> =>
        /\ OneSuitePerPath
        /\ \A t \in 1..Len(Handled) :
            /\ LeafUnderNestedSuites(Handled[t])
            /\ LabelOf(Handled[t]) = LastSegment(Handled[t])

\* C16: with a non-empty delimiter each descriptor gives one leaf, its ID
\* the full name and its label the last segment, or the text 'undefined'
\* when the name ends with the delimiter, under one nested suite per
\* preceding segment; there is one suite node per distinct accumulated
\* path, created by the first descriptor that has it and reused afterwards
C16_HierarchicalSuite ==
    fnArg.suiteDelimiter # <<>> =>
        /\ OneSuitePerPath
        /\ \A t \in 1..Len(Handled) :
            /\ LeafUnderNestedSuites(Handled[t])
            /\ LabelOf(Handled[t]) =
                IF LastSegment(Handled[t]) = <<>> THEN Undefined
                ELSE LastSegment(Handled[t])

\* two descriptors share the suite a, one of them nests a second suite
C16_Witness ==
    /\ fnRet.done
    /\ fnArg.suiteDelimiter = <<"/">>
    /\ fnArg.tests = << <<"a", "/", "x">>, <<"a", "/", "b", "/", "x">>,
                        <<"a", "/">> >>
    /\ Cardinality(SuiteNodes) = 3
    /\ LabelOf(<<"a", "/">>) = Undefined

(***************************************************************************)
(* run() and getTestIndexes on the tree of the last load                   *)
(***************************************************************************)
\* number of IDs in a request of the Test Explorer
MaxIds == 2

\* the whole tree of a test list
RECURSIVE buildSuite(_, _, _)
buildSuite(nodes, tests, suiteDelimiter) ==
    IF tests = <<>> THEN nodes
    ELSE buildSuite(addTest(nodes, Head(tests), suiteDelimiter),
                    Tail(tests), suiteDelimiter)

testSuite(tests, suiteDelimiter) ==
    IF suiteDelimiter = <<>> THEN flatSuite(tests)
    ELSE buildSuite(<< rootSuite >>, tests, suiteDelimiter)

\* names without the characters of ROOT_SUITE_ID and SUITE_SUFFIX
PlainNames ==
    { <<"a", "/", "x">>, <<"a", "/", "y">>, <<"b">>,
      <<"a", "/", "b", "/", "x">> }

PlainManifests ==
    { m \in UNION { [1..n -> PlainNames] : n \in 1..MaxTests } :
        \A i, j \in DOMAIN m : i # j => m[i] # m[j] }

\* what the Test Explorer may ask to run: the root suite alone, or nodes
\* of the tree it was given by the last load
RequestsFor(nodes) ==
    { << ROOT_SUITE_ID >> }
        \cup UNION { [1..n -> { nodes[i].id : i \in 2..Len(nodes) }] :
                        n \in 1..MaxIds }

\* the last load built the tree with loadDelimiter; suiteDelimiter is the
\* setting read by runTests
IndexInit ==
    /\ Constructed
    /\ \E tests \in PlainManifests, loadDelimiter \in Delimiters,
          suiteDelimiter \in Delimiters :
        \E request \in RequestsFor(testSuite(tests, loadDelimiter)) :
            fnArg = [tests |-> tests, loadDelimiter |-> loadDelimiter,
                     suiteDelimiter |-> suiteDelimiter, request |-> request]
    /\ fnRet = [done |-> FALSE, runAll |-> FALSE, testIndexes |-> <<>>]

\* run() of the root suite: runTests([])
runAllTests ==
    /\ ~fnRet.done
    /\ fnArg.request = << ROOT_SUITE_ID >>
    /\ fnRet' = [done |-> TRUE, runAll |-> TRUE,
                 testIndexes |->
                    getTestIndexes(<<>>, fnArg.suiteDelimiter, fnArg.tests)]
    /\ UNCHANGED <<adapterVars, fnArg>>

\* run() of anything else: runTests(tests)
runSomeTests ==
    /\ ~fnRet.done
    /\ fnArg.request # << ROOT_SUITE_ID >>
    /\ fnRet' = [done |-> TRUE, runAll |-> FALSE,
                 testIndexes |->
                    getTestIndexes(fnArg.request, fnArg.suiteDelimiter,
                                   fnArg.tests)]
    /\ UNCHANGED <<adapterVars, fnArg>>

IndexNext == runAllTests \/ runSomeTests

IndexSpec == IndexInit /\ [][IndexNext]_vars

\* the positions in the test list of the leaves under the requested nodes
RequestedPositions ==
    LET nodes == testSuite(fnArg.tests, fnArg.loadDelimiter)
        under(id) ==
            UNION { Range(collectTestItems(nodes, n)) :
                        n \in { i \in 1..Len(nodes) : nodes[i].id = id } }
    IN  { PositionIn(fnArg.tests, nodes[leaf].id) :
            leaf \in UNION { under(fnArg.request[k]) :
                                k \in 1..Len(fnArg.request) } }

\* C12 as stated: the index list is made of the 1-based positions of the
\* requested tests, a suite ID standing for all leaves under it; every
\* index is in 1..N; the list is empty only for a run-everything request
C12_IndexesAreRequestedPositions ==
    fnRet.done =>
        /\ \A k \in 1..Len(fnRet.testIndexes) :
                fnRet.testIndexes[k] \in 1..Len(fnArg.tests)
        /\ fnRet.testIndexes = <<>> => fnRet.runAll
        /\ ~fnRet.runAll => Range(fnRet.testIndexes) = RequestedPositions

(***************************************************************************)
(* The descriptor list during a run                                        *)
(***************************************************************************)
LoadFrames == { f \in DOMAIN frames : frames[f].kind = "load" }

\* a run has computed its indexes and its runner has not exited yet
RunnerGoing ==
    \E f \in DOMAIN frames :
        /\ frames[f].kind = "run"
        /\ frames[f].pc = "exec"
        /\ frames[f].proc \in LiveRunProcs

\* C13: from the computation of the indexes to the exit of the runner the
\* descriptor list is not replaced, and while the state is running or
\* cancelled no load is in flight, none starts and none completes; a
\* runner process is only alive while its run holds one of these states
C13_ListStableDuringRun ==
    /\ [](state \in {"running", "cancelled"} => LoadFrames = {})
    /\ [](LiveRunProcs # {}
            => (RunnerGoing /\ state \in {"running", "cancelled"}))
    /\ [][(state \in {"running", "cancelled"} \/ RunnerGoing)
            => /\ cmakeTests' = cmakeTests
               /\ \A f \in DOMAIN frames' : frames'[f].kind # "load"
               /\ \A i \in 1..Len(events') :
                    events'[i].em = "tests"
                        => (i <= Len(events) /\ events[i] = events'[i])]_vars

\* load() was called and ignored while the runner of a run was going on a
\* loaded, non-empty descriptor list
C13_Witness ==
    /\ RunnerGoing
    /\ state = "running"
    /\ lastCall = "load"
    /\ cmakeTests # <<>>
    /\ \A i \in 1..Len(events) : events[i].em # "tests"

(***************************************************************************)
(* The per-test run loop (src/unnamed/part_003, 934-1037) with             *)
(* runCmakeTest (src/src/cmake-runner.ts, 118-179, 267-274)                *)
(***************************************************************************)
\* largest value of the parallelJobs setting
MaxJobs == 2

\* the IDs of one run() call: tests of the list, unknown tests, the root
LoopRequests(tests) ==
    UNION { [1..n -> Range(tests) \cup { ROOT_SUITE_ID, <<"b">> }] :
                n \in 1..MaxIds }

\* where runTest of the root suite resumes after its inner loop
SuiteReturn == << "*", "return" >>

LoopInit ==
    /\ Constructed
    /\ \E tests \in Manifests, jobs \in 1..MaxJobs :
        \E ids \in LoopRequests(tests) :
            fnArg = [tests |-> tests, parallelJobs |-> jobs, ids |-> ids]
    /\ fnRet = [todo |-> << >>, started |-> FALSE, inFlight |-> {},
                spawned |-> 0, fired |-> << >>, exits |-> << >>]

\* run(): the loop is entered with the IDs of the call
loopEnter ==
    /\ ~fnRet.started
    /\ fnRet' = [fnRet EXCEPT !.started = TRUE, !.todo = fnArg.ids]
    /\ UNCHANGED <<adapterVars, fnArg>>

\* mutation: the loop does not wait for the test it has started
nextIterationNoAwait(inFlight) == TRUE

\* `await this.runTest(id)`: the next iteration begins when the promise of
\* runCmakeTest has settled
nextIteration(inFlight) == inFlight = {}

\* runTest of the root suite: the suite is reported running and the inner
\* loop calls runTest for every test of the list
runTestRootSuite ==
    /\ fnRet.started /\ fnRet.todo # <<>>
    /\ nextIteration(fnRet.inFlight)
    /\ Head(fnRet.todo) = ROOT_SUITE_ID
    /\ fnRet' = [fnRet EXCEPT
                    !.todo = fnArg.tests \o << SuiteReturn >> \o Tail(@),
                    !.fired = Append(@, << ROOT_SUITE_ID, "running" >>)]
    /\ UNCHANGED <<adapterVars, fnArg>>

\* the inner loop is over: the suite is reported completed
runTestRootSuiteReturn ==
    /\ fnRet.started /\ fnRet.todo # <<>>
    /\ nextIteration(fnRet.inFlight)
    /\ Head(fnRet.todo) = SuiteReturn
    /\ fnRet' = [fnRet EXCEPT
                    !.todo = Tail(@),
                    !.fired = Append(@, << ROOT_SUITE_ID, "completed" >>)]
    /\ UNCHANGED <<adapterVars, fnArg>>

\* runTest of an ID that is not in the list: the test is reported skipped
runTestNotFound ==
    /\ fnRet.started /\ fnRet.todo # <<>>
    /\ nextIteration(fnRet.inFlight)
    /\ Head(fnRet.todo) \notin
            Range(fnArg.tests) \cup { ROOT_SUITE_ID, SuiteReturn }
    /\ fnRet' = [fnRet EXCEPT
                    !.todo = Tail(@),
                    !.fired = Append(@, << Head(fnRet.todo), "skipped" >>)]
    /\ UNCHANGED <<adapterVars, fnArg>>

\* runTest of a test: scheduleCmakeTest spawns its process, or throws when
\* the process has no pid
runTest(spawnOk) ==
    /\ fnRet.started /\ fnRet.todo # <<>>
    /\ nextIteration(fnRet.inFlight)
    /\ Head(fnRet.todo) \in Range(fnArg.tests)
    /\ fnRet' =
        IF spawnOk
        THEN [fnRet EXCEPT
                !.todo = Tail(@),
                !.spawned = @ + 1,
                !.inFlight = @ \cup { [id |-> Head(fnRet.todo),
                                       n |-> fnRet.spawned + 1] },
                !.fired = Append(@, << Head(fnRet.todo), "running" >>)]
        ELSE [fnRet EXCEPT
                !.todo = Tail(@),
                !.fired = @ \o << << Head(fnRet.todo), "running" >>,
                                  << Head(fnRet.todo), "errored" >> >>]
    /\ UNCHANGED <<adapterVars, fnArg>>

\* CmakeTestResult.code of a process ended by a signal (null)
NullCode == -1

\* exit codes: success, failure, none
ExitCodes == { 0, 1, NullCode }

\* the truthiness of `result.code`: 0 and null are falsy
Truthy(code) == code # 0 /\ code # NullCode

\* executeCmakeTest: the process exits and the promise resolves with its
\* exit code; `result.code ? 'failed' : 'passed'`
executeCmakeTestExit(proc, code) ==
    /\ proc \in fnRet.inFlight
    /\ LET st == IF Truthy(code) THEN "failed" ELSE "passed"
       IN  fnRet' = [fnRet EXCEPT
                        !.inFlight = @ \ {proc},
                        !.fired = Append(@, << proc.id, st >>),
                        !.exits = Append(@, [id |-> proc.id, code |-> code,
                                             state |-> st])]
    /\ UNCHANGED <<adapterVars, fnArg>>

LoopNext ==
    \/ loopEnter
    \/ runTestRootSuite
    \/ runTestRootSuiteReturn
    \/ runTestNotFound
    \/ \E spawnOk \in BOOLEAN : runTest(spawnOk)
    \/ \E proc \in fnRet.inFlight, code \in ExitCodes :
            executeCmakeTestExit(proc, code)

LoopSpec == LoopInit /\ [][LoopNext]_vars

\* the IDs runTest is called with one after the other, the root suite
\* standing for every test of the list
RECURSIVE Unfolded(_, _)
Unfolded(ids, tests) ==
    IF ids = <<>> THEN <<>>
    ELSE (IF Head(ids) = ROOT_SUITE_ID THEN tests ELSE << Head(ids) >>)
            \o Unfolded(Tail(ids), tests)

\* C17: when more tests are scheduled than the parallelism bound allows at
\* once, the test executions in flight (spawned, not yet exited) never
\* exceed the bound
C17_InFlightAtMostBound ==
    fnArg.parallelJobs < Len(Unfolded(fnArg.ids, fnArg.tests))
        => Cardinality(fnRet.inFlight) <= fnArg.parallelJobs

\* with a bound of one and two tests scheduled, the second is in flight
\* after the first has exited
C17_Witness ==
    /\ fnArg.parallelJobs = 1
    /\ Len(Unfolded(fnArg.ids, fnArg.tests)) >= 2
    /\ fnRet.spawned = 2
    /\ Cardinality(fnRet.inFlight) = 1

\* C23 as stated: a test whose process was ended by a signal (exit code
\* null) is not reported passed
C23_KilledTestNotPassed ==
    \A i \in 1..Len(fnRet.exits) :
        fnRet.exits[i].code = NullCode => fnRet.exits[i].state # "passed"

(***************************************************************************)
(* getParallelJobs                                                         *)
(***************************************************************************)
\* a setting: absent (config.get gives undefined) or an integer, as the
\* settings are declared
NoSetting == [set |-> FALSE, value |-> 0]
Setting(n) == [set |-> TRUE, value |-> n]
JobSettings == { NoSetting } \cup { Setting(n) : n \in (0 - MaxJobs)..MaxJobs }

\* `!parallelJobs`: undefined and 0 are falsy
Falsy(setting) == ~setting.set \/ setting.value = 0

\* mutation: the value is returned as found
keepAsFound(n) == n

\* `if (parallelJobs < 1) parallelJobs = 1;`
atLeastOne(n) == IF n < 1 THEN 1 ELSE n

getParallelJobs(parallelJobs, ctestParallelJobs, cmakeParallelJobs, cpus) ==
    atLeastOne(
        IF ~Falsy(parallelJobs) THEN parallelJobs.value
        ELSE IF ~Falsy(ctestParallelJobs) THEN ctestParallelJobs.value
        ELSE IF ~Falsy(cmakeParallelJobs) THEN cmakeParallelJobs.value
        ELSE cpus)

JobsInit ==
    /\ Constructed
    /\ fnArg \in [parallelJobs : JobSettings,
                   ctestParallelJobs : JobSettings,
                   cmakeParallelJobs : JobSettings,
                   cpus : 1..MaxJobs]
    /\ fnRet = [done |-> FALSE, parallelJobs |-> 0]

resolveParallelJobs ==
    /\ ~fnRet.done
    /\ fnRet' = [done |-> TRUE,
                 parallelJobs |->
                    getParallelJobs(fnArg.parallelJobs,
                                    fnArg.ctestParallelJobs,
                                    fnArg.cmakeParallelJobs, fnArg.cpus)]
    /\ UNCHANGED <<adapterVars, fnArg>>

JobsNext == resolveParallelJobs

JobsSpec == JobsInit /\ [][JobsNext]_vars

\* the values in the order of precedence, an absent setting counting as 0
JobCandidates ==
    << IF fnArg.parallelJobs.set THEN fnArg.parallelJobs.value ELSE 0,
       IF fnArg.ctestParallelJobs.set
       THEN fnArg.ctestParallelJobs.value ELSE 0,
       IF fnArg.cmakeParallelJobs.set
       THEN fnArg.cmakeParallelJobs.value ELSE 0,
       fnArg.cpus >>

FirstNonZero ==
    JobCandidates[CHOOSE i \in 1..4 :
                    /\ JobCandidates[i] # 0
                    /\ \A j \in 1..(i - 1) : JobCandidates[j] = 0]

MaxListed == 2

\* the text on stdout, as JSON tokens; a test is the token of its name
ListedNames == << "a/x", "a/y", "b" >>

RECURSIVE Items(_)
Items(n) ==
    IF n = 0 THEN <<>>
    ELSE IF n = 1 THEN << ListedNames[1] >>
    ELSE Items(n - 1) \o << ",", ListedNames[n] >>

\* {"tests":[...]} with n tests
Listing(n) == << "{", "\"tests\":", "[" >> \o Items(n) \o << "]", "}" >>

\* what the command may print: a listing, an object without tests, null,
\* the plain text of a CTest that does not know the option, nothing
StdoutTexts ==
    { Listing(n) : n \in 0..MaxListed }
        \cup { << "{", "}" >>, << "null" >>, << "Test", "project" >>, << >> }

\* the elements of a JSON array of names: names separated by commas
IsItems(toks) ==
    \/ toks = <<>>
    \/ /\ Len(toks) % 2 = 1
       /\ \A i \in 1..Len(toks) :
            IF i % 2 = 1 THEN toks[i] \in Range(ListedNames)
            ELSE toks[i] = ","

\* JSON.parse: kind "error" when the text is not JSON (SyntaxError)
JSONparse(toks) ==
    IF toks = << "null" >>
    THEN [kind |-> "null", tests |-> <<>>]
    ELSE IF toks = << "{", "}" >>
    THEN [kind |-> "object", tests |-> <<>>]
    ELSE IF /\ Len(toks) >= 5
            /\ SubSeq(toks, 1, 3) = << "{", "\"tests\":", "[" >>
            /\ SubSeq(toks, Len(toks) - 1, Len(toks)) = << "]", "}" >>
            /\ IsItems(SubSeq(toks, 4, Len(toks) - 2))
    THEN [kind |-> "listing",
          tests |-> SelectSeq(SubSeq(toks, 4, Len(toks) - 2),
                              LAMBDA tok : tok # ",")]
    ELSE [kind |-> "error", tests |-> <<>>]

\* a settlement of the promise: resolve(value) or reject(error); value is
\* "array" with the tests, or "undefined"
Resolved(value, tests) ==
    [how |-> "resolve", value |-> value, tests |-> tests, error |-> ""]
Rejected(error) ==
    [how |-> "reject", value |-> "", tests |-> <<>>, error |-> error]

\* mutation: the handler resolves with whatever the parser returned
onExitAlwaysResolves(out) == Resolved("array", JSONparse(out).tests)

\* the body of the exit handler: parse, take data.tests, resolve; any
\* exception (SyntaxError, TypeError on null.tests) rejects
onExit(out) ==
    LET data == JSONparse(out)
    IN  IF data.kind = "listing" THEN Resolved("array", data.tests)
        ELSE IF data.kind = "object" THEN Resolved("undefined", <<>>)
        ELSE Rejected("Error parsing test list")

\* mutation: the directory check is left out
statSyncIsDirectoryAny(cwd) == "directory"

\* fs.statSync(cwd).isDirectory(): throws when the path does not exist
statSyncIsDirectory(cwd) ==
    IF cwd = "missing" THEN "throws" ELSE cwd

LoadInit ==
    /\ Constructed
    /\ fnArg \in [cwd : {"directory", "file", "missing"},
                   pid : BOOLEAN,
                   text : StdoutTexts]
    /\ fnRet = [pc |-> "start", spawnCalls |-> 0, out |-> <<>>, pos |-> 0,
                code |-> 0, atExit |-> <<>>, settled |-> <<>>]

\* the promise executor, up to the registration of the listeners
loadCmakeTests ==
    /\ fnRet.pc = "start"
    /\ LET isDir == statSyncIsDirectory(fnArg.cwd)
       IN  fnRet' =
            IF isDir = "throws"
            THEN [fnRet EXCEPT !.pc = "failed",
                               !.settled = Append(@, Rejected("ENOENT"))]
            ELSE IF isDir # "directory"
            THEN [fnRet EXCEPT
                    !.pc = "failed",
                    !.settled =
                        Append(@, Rejected("Directory does not exist"))]
            ELSE IF ~(fnArg.pid /\ fnArg.cwd = "directory")
            THEN [fnRet EXCEPT
                    !.pc = "failed",
                    !.spawnCalls = @ + 1,
                    !.settled = Append(@, Rejected("Cannot spaw command"))]
            ELSE [fnRet EXCEPT !.pc = "running", !.spawnCalls = @ + 1]
    /\ UNCHANGED <<adapterVars, fnArg>>

\* stdout 'data': the next piece of the text is pushed to out; the stream
\* may still deliver after the exit event
stdoutData ==
    /\ fnRet.pc \in {"running", "exited"}
    /\ fnRet.pos < Len(fnArg.text)
    /\ fnRet' = [fnRet EXCEPT !.pos = @ + 1,
                              !.out = Append(@, fnArg.text[fnRet.pos + 1])]
    /\ UNCHANGED <<adapterVars, fnArg>>

\* 'exit' (once): code is the exit code, -1 for a process ended by a signal
ctestProcessExit(code) ==
    /\ fnRet.pc = "running"
    /\ fnRet' = [fnRet EXCEPT !.pc = "exited", !.code = code,
                              !.atExit = fnRet.out,
                              !.settled = Append(@, onExit(fnRet.out))]
    /\ UNCHANGED <<adapterVars, fnArg>>

LoadNext ==
    \/ loadCmakeTests
    \/ stdoutData
    \/ \E code \in {0, 1, -1} : ctestProcessExit(code)

LoadSpec == LoadInit /\ [][LoadNext]_vars

\* the promise has been settled once and no more
SettledOnce ==
    /\ Len(fnRet.settled) <= 1
    /\ fnRet.pc \in {"failed", "exited"} => Len(fnRet.settled) = 1

C20_NoSpawnWithoutDirectory ==
    (fnArg.cwd # "directory" /\ fnRet.pc # "start") =>
        /\ fnRet.pc = "failed"
        /\ fnRet.spawnCalls = 0
        /\ Len(fnRet.settled) = 1
        /\ fnRet.settled[1].how = "reject"

\* the path is a file: rejected before any spawn
C20_Witness ==
    /\ fnArg.cwd = "file"
    /\ fnRet.pc = "failed"
    /\ fnRet.settled = << Rejected("Directory does not exist") >>
    /\ fnRet.spawnCalls = 0

(***************************************************************************)
(* The controller's refresh (src/src/cmake-runner.ts, 332-478)             *)
(***************************************************************************)
\* number of build directories found by the test file pattern
MaxDirs == 2

\* what the load of one build directory runs into
DirOutcomes ==
    { "ok", "cacheNotFound", "noCtestPath", "cannotSpawn", "parseError" }

\* the configured build directory is number 0, the detected ones follow
ConfiguredDir == 0

RefreshInit ==
    /\ Constructed
    /\ fnArg \in [configured : DirOutcomes,
                   autodetectBuildDirs : BOOLEAN,
                   detected : UNION { [1..n -> DirOutcomes] :
                                        n \in 0..MaxDirs }]
    /\ fnRet = [pc |-> "start", refresh |-> "pending", loading |-> {},
                items |-> {}, unhandled |-> {}]

OutcomeOf(dir) ==
    IF dir = ConfiguredDir THEN fnArg.configured ELSE fnArg.detected[dir]

\* refreshHandler: loadTestsFromAllWorkspaceFolders, loadTestsFromWorkspace
\* up to `await loadTestsFromBuildDir(...)` of the configured directory
loadTestsFromWorkspace ==
    /\ fnRet.pc = "start"
    /\ fnRet' = [fnRet EXCEPT !.pc = "configured",
                              !.loading = { ConfiguredDir }]
    /\ UNCHANGED <<adapterVars, fnArg>>

\* loadTestsFromBuildDir settles: a missing cache file returns silently,
\* another error rejects, a listing creates the root item of the directory.
\* Only the load of the configured directory is awaited: after it,
\* loadTestsFromTestFilePattern starts the load of every detected directory
\* and drops the promises, and the refresh resolves
loadTestsFromBuildDir(dir) ==
    /\ dir \in fnRet.loading
    /\ LET outcome == OutcomeOf(dir)
           rejects == outcome \notin {"ok", "cacheNotFound"}
           detect == /\ dir = ConfiguredDir
                     /\ ~rejects
                     /\ fnArg.autodetectBuildDirs
       IN  fnRet' =
            [fnRet EXCEPT
                !.loading = IF detect THEN DOMAIN fnArg.detected
                            ELSE @ \ {dir},
                !.items = IF outcome = "ok" THEN @ \cup {dir} ELSE @,
                !.unhandled = IF rejects /\ dir # ConfiguredDir
                              THEN @ \cup {dir} ELSE @,
                !.pc = IF dir = ConfiguredDir THEN "done" ELSE @,
                !.refresh = IF dir # ConfiguredDir THEN @
                            ELSE IF rejects THEN "rejected"
                            ELSE "resolved"]
    /\ UNCHANGED <<adapterVars, fnArg>>

RefreshNext ==
    \/ loadTestsFromWorkspace
    \/ \E dir \in 0..MaxDirs : loadTestsFromBuildDir(dir)

RefreshSpec == RefreshInit /\ [][RefreshNext]_vars

\* the directories whose load was started
Started ==
    { ConfiguredDir } \cup
        (IF fnRet.pc = "done" /\ fnArg.autodetectBuildDirs
            /\ fnArg.configured \in {"ok", "cacheNotFound"}
         THEN DOMAIN fnArg.detected ELSE {})

\* a load that failed: the configured directory is missing, or any
\* directory has no runner path, cannot spawn or lists no valid JSON
FailedDirs ==
    { dir \in Started \ fnRet.loading :
        \/ OutcomeOf(dir) \in {"noCtestPath", "cannotSpawn", "parseError"}
        \/ dir = ConfiguredDir /\ OutcomeOf(dir) = "cacheNotFound" }

\* C21 as stated: once the loads of a refresh have settled, a failure of
\* any of them has been reported by the refresh (its promise is rejected);
\* the refresh does not complete as if it had succeeded
C21_LoadFailureReachesCaller ==
    (fnRet.pc = "done" /\ fnRet.loading = {} /\ FailedDirs # {})
        => fnRet.refresh = "rejected"

(***************************************************************************)
(* The controller's run (src/src/cmake-runner.ts, 544-717)                 *)
(***************************************************************************)
\* what runTestsForRoot runs into for one root
RootOutcomes ==
    { "ok", "getCtestPath", "getRunOptions", "loadCmakeTests", "spawn" }

\* the leaf tests of every root
RootTests == { "t1", "t2" }

\* request.include is absent (runAll), or names leaves of some roots;
\* include[r] = {} for a root without requested test
RunRootsInit ==
    /\ Constructed
    /\ \E n \in 1..MaxDirs :
        fnArg \in [outcome : [1..n -> RootOutcomes],
                   runAll : BOOLEAN,
                   include : [1..n -> SUBSET RootTests]]
    /\ fnRet = [pc |-> "start", todo |-> <<>>, errored |-> {},
                passed |-> {}, visited |-> <<>>, ended |-> 0]

\* the tests run under a root: testsToRun || collectTestItems(root)
TestsToRun(root) ==
    IF fnArg.runAll THEN RootTests ELSE fnArg.include[root]

\* the roots the loop goes through: every root item, or the roots of the
\* included items
RootsOfRequest ==
    SelectSeq([r \in DOMAIN fnArg.outcome |-> r],
              LAMBDA r : TestsToRun(r) # {})

\* runTests: createTestRun and the collection of the roots
runTestsBegin ==
    /\ fnRet.pc = "start"
    /\ fnRet' = [fnRet EXCEPT !.pc = "roots", !.todo = RootsOfRequest]
    /\ UNCHANGED <<adapterVars, fnArg>>

\* mutation: an error of a root leaves the loop over the roots
remainingRootsUnlessError(outcome, rest) ==
    IF outcome = "ok" THEN rest ELSE <<>>

\* runTestsForRoot catches every error itself, so the loop of runTests
\* goes on with the next root
remainingRoots(outcome, rest) == rest

\* `await runTestsForRoot(...)` of the next root: the tests get their
\* results, or the catch block marks them all errored
runTestsForRoot ==
    /\ fnRet.pc = "roots"
    /\ fnRet.todo # <<>>
    /\ LET root == Head(fnRet.todo)
           outcome == fnArg.outcome[root]
           tests == { << root, t >> : t \in TestsToRun(root) }
       IN  fnRet' =
            [fnRet EXCEPT
                !.todo = remainingRoots(outcome, Tail(@)),
                !.visited = Append(@, root),
                !.passed = IF outcome = "ok" THEN @ \cup tests ELSE @,
                !.errored = IF outcome # "ok" THEN @ \cup tests ELSE @]
    /\ UNCHANGED <<adapterVars, fnArg>>

\* `finally { run.end(); }`
runEnd ==
    /\ fnRet.pc = "roots"
    /\ fnRet.todo = <<>>
    /\ fnRet' = [fnRet EXCEPT !.pc = "ended", !.ended = @ + 1]
    /\ UNCHANGED <<adapterVars, fnArg>>

RunRootsNext == runTestsBegin \/ runTestsForRoot \/ runEnd

RunRootsSpec == RunRootsInit /\ [][RunRootsNext]_vars

\* C22: an error raised while running the tests of one root does not abort
\* the run: when the run has ended, every root of the request has been
\* gone through, the requested tests of a root that raised an error are
\* all marked errored, those of the other roots have their results, and
\* the test run is ended exactly once
C22_RootErrorDoesNotAbortRun ==
    /\ fnRet.ended <= 1
    /\ fnRet.pc = "ended" =>
        /\ fnRet.ended = 1
        /\ fnRet.visited = RootsOfRequest
        /\ \A r \in Range(RootsOfRequest) : \A t \in TestsToRun(r) :
            IF fnArg.outcome[r] = "ok"
            THEN << r, t >> \in fnRet.passed \ fnRet.errored
            ELSE << r, t >> \in fnRet.errored \ fnRet.passed

\* the first root could not load its manifest, the second one ran
C22_Witness ==
    /\ fnRet.pc = "ended"
    /\ Len(fnRet.visited) = 2
    /\ fnArg.outcome[1] = "loadCmakeTests"
    /\ fnArg.outcome[2] = "ok"
    /\ << 1, "t1" >> \in fnRet.errored
    /\ << 2, "t2" >> \in fnRet.passed

\* ---------------------------------------------------------------------
\* The events of one run() of the adapter.  `events` holds what was fired
\* since the last accepted load() or run().
\* ---------------------------------------------------------------------

\* the last accepted call is a run()
RunAccepted ==
    events # << >> /\ events[1].em = "testStates"

\* C30: an accepted run() fires the started event first and the finished
\* event last, once each, however the run ends; every test or suite state
\* event is fired after the one and before the other, and the state is
\* idle again only once the finished event was fired
C30_RunEventsBracketed ==
    /\ \A i \in 1..Len(events) :
            events[i].em = "testStates" =>
                /\ RunAccepted
                /\ events[i].type = "started" <=> i = 1
                /\ events[i].type = "finished" => i = Len(events)
    /\ RunAccepted =>
            (state = "idle" <=> events[Len(events)] = RunFinishedEvent)

\* C30 witnesses: a cancelled run over, a test state between its started
\* and finished events
C30_Witness ==
    /\ RunAccepted
    /\ lastCall = "cancel"
    /\ state = "idle"
    /\ Len(events) > 2
    /\ events[2].type = "test"
    /\ events[Len(events)] = RunFinishedEvent

\* ---------------------------------------------------------------------
\* The messages of the tests of one run() of the adapter.
\* ---------------------------------------------------------------------

\* the positions of the end events in the events delivered by a process
EndPositions(evlog) == { k \in 1..Len(evlog) : evlog[k].type = "end" }

\* the lines of the output events of one index delivered before position k
LinesBefore(evlog, k, index) ==
    LET outs == SelectSeq(SubSeq(evlog, 1, k - 1),
                          LAMBDA e : e.type = "output" /\ e.index = index)
    IN  [n \in 1..Len(outs) |-> outs[n].line]

\* the passed and failed events fired, in order
EndedTests == SelectSeq(events, LAMBDA e : IsTestEvent(e, {"passed", "failed"}))

\* C32: the message of the passed or failed event of a test is the join,
\* with line breaks, of the lines of the output events of the same index
\* that the process of this run delivered before its end event, in order
\* of arrival, and of no other line
C32_MessageIsOwnOutput ==
    \A p \in DOMAIN procs :
        procs[p].kind = "run" =>
            LET evlog == procs[p].evlog
                ends == EndPositions(evlog)
            IN  /\ Len(EndedTests) = Cardinality(ends)
                /\ \A k \in ends :
                    LET n == Cardinality({ j \in ends : j <= k })
                    IN  /\ EndedTests[n].id = evlog[k].name
                        /\ EndedTests[n].msg
                            = Join(LinesBefore(evlog, k, evlog[k].index))

\* C32 witnesses: two tests run interleaved, lines of the second delivered
\* before the end of the first, and the first has ended
C32_Witness ==
    \E p \in DOMAIN procs :
        /\ procs[p].kind = "run"
        /\ Len(procs[p].evlog) >= 6
        /\ procs[p].evlog[1].type = "start"
        /\ procs[p].evlog[3].type = "start"
        /\ procs[p].evlog[3].index # procs[p].evlog[1].index
        /\ procs[p].evlog[6].type = "end"
        /\ procs[p].evlog[6].index = procs[p].evlog[1].index
        /\ Len(EndedTests) = 1
        /\ Len(MessageLines(EndedTests[1].msg)) = 2

\* ---------------------------------------------------------------------
\* The events of one load() of the adapter.
\* ---------------------------------------------------------------------

\* the last accepted call is a load()
LoadAccepted ==
    events # << >> /\ events[1].em = "tests"

\* the started event is the first and the finished event the last event of
\* the tests emitter, and the state is idle again exactly once the finished
\* event was fired
LoadEventsBracketed ==
    /\ \A i \in 1..Len(events) :
            events[i].em = "tests" =>
                /\ LoadAccepted
                /\ events[i].type = "started" <=> i = 1
                /\ events[i].type = "finished" <=> (i = 2 /\ i = Len(events))
    /\ LoadAccepted =>
            (state = "idle" <=> events[Len(events)].type = "finished")

\* C31 as stated: every accepted load() fires one started and then one
\* finished event, the state is idle again only after it, and the
\* finished event carries a suite or an error message and not both
C31_SuiteXorError ==
    /\ LoadEventsBracketed
    /\ \A i \in 1..Len(events) :
            (events[i].em = "tests" /\ events[i].type = "finished") =>
                (events[i].st = "suite") # (events[i].err # "")

\* C31 amended: as above, but the finished event carries a suite (the
\* descriptor list just stored), or an error message, or neither of them,
\* never both
C31_SuiteOrErrorOrNeither ==
    /\ LoadEventsBracketed
    /\ \A i \in 1..Len(events) :
            (events[i].em = "tests" /\ events[i].type = "finished") =>
                /\ ~ (events[i].st = "suite" /\ events[i].err # "")
                /\ events[i].st = "error" <=> events[i].err # ""
                /\ events[i].st \in { "suite", "error", "undefined" }
                /\ events[i].st = "suite" => events[i].ids = cmakeTests

\* C31 witnesses: a load is over with a finished event that carries
\* neither suite nor error message
C31_Witness ==
    /\ LoadAccepted
    /\ state = "idle"
    /\ Len(events) = 2
    /\ events[2] = LoadFinishedEvent("undefined", << >>, "")

\* C35 as stated: a load that fails leaves the stored runner path and the
\* descriptor list as they were before it; as long as no load has stored
\* a list and none is in flight, no runner path is stored either
C35_FailedLoadStoresNothing ==
    (LoadFrames = {} /\ cmakeTests = << >>) => ctestPath = ""

\* C36: while the adapter state is idle or loading there is no current
\* process handle, also after a run that failed or was cancelled
C36_NoHandleUnlessRunning ==
    state \in { "idle", "loading" } => currentTestProcess = NoProc

\* C36 witnesses: a run was cancelled, its process was killed and has
\* exited, and the adapter is idle without a handle
C36_Witness ==
    /\ state = "idle"
    /\ currentTestProcess = NoProc
    /\ RunAccepted
    /\ \E p \in DOMAIN procs :
        /\ procs[p].kind = "run"
        /\ procs[p].killed
        /\ procs[p].exit = "abnormal"

\* the event emitters the adapter creates
CreatedEmitters == { "tests", "testStates", "retire", "autorun" }

\* C38 as stated: in whatever state dispose() is called, it cancels the
\* run in flight, disposes every emitter the adapter created and leaves
\* the list of disposables empty
C38_DisposeDisposesEveryEmitter ==
    [][Called({"dispose"}) =>
        /\ state = "running" => state' = "cancelled"
        /\ CreatedEmitters \subseteq disposed'
        /\ disposables' = {}]_vars

\* ---------------------------------------------------------------------
\* Substitution of configuration strings (substituteString, configGetStr).
\* A string is a sequence of lexemes; a placeholder key such as ${a} is
\* the three lexemes "${", "a", "}".  fnArg is [str, varMap], varMap the
\* entries in declaration order; fnRet is the position in the function
\* called once for each ordering of the entries (varMap the one being
\* iterated, turns the parity of the iterations of the while loops), and
\* what it returned.
\* ---------------------------------------------------------------------

\* number of parts an input string is made of
MaxParts == 2

\* the placeholder keys of the map
KeyA == << "${", "a", "}" >>
KeyB == << "${", "b", "}" >>
SubstKeys == { KeyA, KeyB }

\* literal text
Literal == << "x" >>

RECURSIVE Flatten(_)
Flatten(parts) ==
    IF parts = << >> THEN << >> ELSE Head(parts) \o Flatten(Tail(parts))

\* the configured strings: placeholders and literal text
SubstStrings ==
    { Flatten(ps) :
        ps \in UNION { [1..n -> SubstKeys \cup { Literal }] : n \in 0..MaxParts } }

\* the values: process.env and command results are arbitrary strings
SubstValues == { << >>, Literal, KeyA, KeyB }

\* the maps: one entry per key, in either declaration order
SubstMaps ==
    { m \in [1..2 -> [key : SubstKeys, value : SubstValues]] :
        m[1].key # m[2].key }

\* str.indexOf(key), counted from 1; 0 when absent
indexOfKey(str, key) ==
    LET hits == { p \in 1..(Len(str) - Len(key) + 1) :
                    SubSeq(str, p, p + Len(key) - 1) = key }
    IN  IF hits = {} THEN 0
        ELSE CHOOSE p \in hits : \A q \in hits : p <= q

\* str.replace(key, value): the first occurrence only
replaceFirst(str, key, value) ==
    LET p == indexOfKey(str, key)
    IN  IF p = 0 THEN str
        ELSE SubSeq(str, 1, p - 1) \o value
                \o SubSeq(str, p + Len(key), Len(str))

\* the orderings of the same entries
Orderings(varMap) == << varMap, << varMap[2], varMap[1] >> >>

SubstInit ==
    /\ Constructed
    /\ fnArg \in [str : SubstStrings, varMap : SubstMaps]
    /\ fnRet = [pc |-> "idle", varMap |-> << >>, str |-> << >>, i |-> 0,
                turns |-> 0, out |-> << >>]

\* substituteString(str, varMap) is called with the next ordering
substituteString ==
    /\ fnRet.pc = "idle"
    /\ Len(fnRet.out) < 2
    /\ fnRet' = [fnRet EXCEPT
                    !.pc = "forEach",
                    !.varMap = Orderings(fnArg.varMap)[Len(fnRet.out) + 1],
                    !.str = fnArg.str,
                    !.i = 1]
    /\ UNCHANGED <<adapterVars, fnArg>>

\* while (str.indexOf(key) > -1) str = str.replace(key, value)
whileReplace ==
    /\ fnRet.pc = "forEach"
    /\ fnRet.i <= Len(fnRet.varMap)
    /\ indexOfKey(fnRet.str, fnRet.varMap[fnRet.i].key) > 0
    /\ fnRet' = [fnRet EXCEPT
                    !.str = replaceFirst(@, fnRet.varMap[fnRet.i].key,
                                         fnRet.varMap[fnRet.i].value),
                    !.turns = (@ + 1) % 2]
    /\ UNCHANGED <<adapterVars, fnArg>>

\* the while loop ends: forEach goes to the next entry
forEachNext ==
    /\ fnRet.pc = "forEach"
    /\ fnRet.i <= Len(fnRet.varMap)
    /\ indexOfKey(fnRet.str, fnRet.varMap[fnRet.i].key) = 0
    /\ fnRet' = [fnRet EXCEPT !.i = @ + 1]
    /\ UNCHANGED <<adapterVars, fnArg>>

\* return str
substituteStringReturn ==
    /\ fnRet.pc = "forEach"
    /\ fnRet.i > Len(fnRet.varMap)
    /\ fnRet' = [fnRet EXCEPT !.pc = "idle", !.out = Append(@, fnRet.str)]
    /\ UNCHANGED <<adapterVars, fnArg>>

SubstNext ==
    \/ substituteString
    \/ whileReplace
    \/ forEachNext
    \/ substituteStringReturn

SubstSpec == SubstInit /\ [][SubstNext]_vars

\* the loops of a call run on as long as they can
SubstFairSpec == SubstSpec /\ WF_vars(SubstNext)

\* C37 as stated: every call of substituteString returns, whatever the
\* string and the map
C37_SubstitutionTerminates ==
    (fnRet.pc = "forEach") ~> (fnRet.pc = "idle")

\* C24 as stated: substituteString returns the same string for both
\* orderings of the same key/value pairs
C24_OrderIndependent ==
    Len(fnRet.out) = 2 => fnRet.out[1] = fnRet.out[2]

\* C25 as stated: a returned string contains no occurrence of any key
\* of the map
C25_NoPlaceholderLeft ==
    \A n \in 1..Len(fnRet.out), e \in 1..Len(fnArg.varMap) :
        indexOfKey(fnRet.out[n], fnArg.varMap[e].key) = 0

\* ---------------------------------------------------------------------
\* The substitution map of the controller (getVariableSubstitutionMap) and
\* the resolution of one setting against it (getConfigStrings).  fnArg is
\* [parts, cmakeIntegration, cmakeExtension, commands]: the configured
\* string in parts, the setting, whether the CMake Tools extension is
\* installed, and the registered commands.
\* ---------------------------------------------------------------------

\* ['buildType', 'buildDirectory']
Varnames == << "buildType", "buildDirectory" >>

\* `\${${varname}}`
KeyOf(varname) == << "${", varname, "}" >>

\* `cmake.${varname}`
CommandOf(varname) == << "cmake", varname >>

\* what the command returns
CommandValue(varname) ==
    IF varname = "buildType" THEN << "Release" >> ELSE << "/build" >>

\* values of the cmakeIntegration setting: the string 'true', the boolean
\* true, anything else
IntegrationSettings == { "'true'", "true", "false" }

\* Map.set: an existing key keeps its place
mapSet(varMap, key, value) ==
    IF \E n \in 1..Len(varMap) : varMap[n].key = key
    THEN [n \in 1..Len(varMap) |->
            IF varMap[n].key = key THEN [key |-> key, value |-> value]
            ELSE varMap[n]]
    ELSE Append(varMap, [key |-> key, value |-> value])

\* one iteration of the loop over the variable names
probe(varMap, varname, commands) ==
    IF CommandOf(varname) \in commands
    THEN mapSet(varMap, KeyOf(varname), CommandValue(varname))
    ELSE mapSet(varMap, KeyOf(varname), << >>)

getVariableSubstitutionMap(cmakeIntegration, cmakeExtension, commands) ==
    LET standard ==
            << [key |-> KeyOf("workspaceFolder"), value |-> << "/ws" >>],
               [key |-> KeyOf("buildType"), value |-> << "Debug" >>],
               [key |-> KeyOf("buildDirectory"), value |-> << >>] >>
        probed ==
            IF cmakeIntegration \in { "'true'", "true" } /\ cmakeExtension
            THEN probe(probe(standard, Varnames[1], commands),
                       Varnames[2], commands)
            ELSE standard
    IN  mapSet(probed, KeyOf("env:HOME"), << "/home" >>)

ProbeInit ==
    /\ Constructed
    /\ fnArg \in
        [parts : UNION { [1..n -> { KeyOf(Varnames[1]), KeyOf(Varnames[2]),
                                    Literal }] : n \in 0..MaxParts },
         cmakeIntegration : IntegrationSettings,
         cmakeExtension : BOOLEAN,
         commands : SUBSET { CommandOf(Varnames[1]), CommandOf(Varnames[2]) }]
    /\ fnRet = [pc |-> "idle", varMap |-> << >>, str |-> << >>, i |-> 0,
                turns |-> 0, out |-> << >>]

\* getConfigStrings: the map is built, then configGetStr substitutes the
\* configured string
getConfigStrings ==
    /\ fnRet.pc = "idle"
    /\ fnRet.out = << >>
    /\ fnRet' = [fnRet EXCEPT
                    !.pc = "forEach",
                    !.varMap = getVariableSubstitutionMap(
                                    fnArg.cmakeIntegration,
                                    fnArg.cmakeExtension, fnArg.commands),
                    !.str = Flatten(fnArg.parts),
                    !.i = 1]
    /\ UNCHANGED <<adapterVars, fnArg>>

ProbeNext ==
    \/ getConfigStrings
    \/ whileReplace
    \/ forEachNext
    \/ substituteStringReturn

ProbeSpec == ProbeInit /\ [][ProbeNext]_vars

\* the probe command of a variable is unavailable: integration disabled,
\* extension missing, or command not registered
Unavailable(varname) ==
    \/ fnArg.cmakeIntegration = "false"
    \/ ~ fnArg.cmakeExtension
    \/ CommandOf(varname) \notin fnArg.commands

\* the value the map of the call holds for a key
ValueOf(key) ==
    LET n == CHOOSE n \in 1..Len(fnRet.varMap) : fnRet.varMap[n].key = key
    IN  fnRet.varMap[n].value

\* the configured string with the placeholder of varname replaced by
\* the empty string and every other placeholder by its value
WithEmpty(varname) ==
    Flatten([n \in 1..Len(fnArg.parts) |->
                IF fnArg.parts[n] = KeyOf(varname) THEN << >>
                ELSE IF fnArg.parts[n] = Literal THEN Literal
                ELSE ValueOf(fnArg.parts[n])])

\* C26 as stated: for ${buildType} and ${buildDirectory} independently,
\* when the probe command is unavailable the placeholder is replaced by
\* the empty string in the resolved setting
C26_UnavailableProbeIsEmpty ==
    \A n \in 1..Len(Varnames) :
        (fnRet.out # << >> /\ Unavailable(Varnames[n]))
            => fnRet.out[1] = WithEmpty(Varnames[n])

\* ---------------------------------------------------------------------
\* The debug configuration of the controller (debugTest): the provider
\* merges the user's configuration, extraCtestEnvVars and the test's own
\* environment.  An environment, list or object, is a sequence of
\* [name, value] in insertion order; the value says where the variable
\* comes from.  fnArg is [platform, config, extraCtestEnvVars, env].
\* ---------------------------------------------------------------------

\* number of variables of one source
MaxVars == 2

\* process.platform
Platforms == { "win32", "linux" }

\* variable names, two of them equal but for the case
EnvNames == { "a", "A", "b" }

\* name.toUpperCase()
toUpperCase(name) ==
    IF name = "a" THEN "A" ELSE IF name = "b" THEN "B" ELSE name

\* the variables of one source: an object has each name once
Variables(from) ==
    { [n \in 1..Len(names) |-> [name |-> names[n], value |-> from]] :
        names \in { ns \in UNION { [1..k -> EnvNames] : k \in 0..MaxVars } :
                      \A i, j \in 1..Len(ns) : i # j => ns[i] # ns[j] } }

\* config.type of the user's configuration
DebugTypes == { "lldb", "cppdbg" }

\* getVariableIndex: the position of the first entry of that name,
\* counted from 1, 0 for -1
getVariableIndex(platform, varname, environment) ==
    LET hits == { n \in 1..Len(environment) :
                    IF platform = "win32"
                    THEN toUpperCase(environment[n].name) = toUpperCase(varname)
                    ELSE environment[n].name = varname }
    IN  IF hits = {} THEN 0
        ELSE CHOOSE n \in hits : \A m \in hits : n <= m

\* the loop of mergeVariablesIntoDebugEnv over the variables left
RECURSIVE mergeLoop(_, _, _, _)
mergeLoop(platform, environment, result, variables) ==
    IF variables = << >> THEN result
    ELSE LET variable == Head(variables)
             variableIndex ==
                getVariableIndex(platform, variable.name, environment)
         IN  mergeLoop(platform, environment,
                       IF variableIndex = 0 THEN Append(result, variable)
                       ELSE [result EXCEPT ![variableIndex] = variable],
                       Tail(variables))

mergeVariablesIntoDebugEnv(platform, environment, variables) ==
    mergeLoop(platform, environment, environment, variables)

\* { ...target, ...source }
RECURSIVE spread(_, _)
spread(target, source) ==
    IF source = << >> THEN target
    ELSE LET variable == Head(source)
             hits == { n \in 1..Len(target) : target[n].name = variable.name }
         IN  spread(IF hits = {} THEN Append(target, variable)
                    ELSE [n \in 1..Len(target) |->
                            IF n \in hits THEN variable ELSE target[n]],
                    Tail(source))

mergeEnvironmentsExtraLast(platform, environment, extraCtestEnvVars, env) ==
    mergeVariablesIntoDebugEnv(platform,
        mergeVariablesIntoDebugEnv(platform, environment, env),
        extraCtestEnvVars)

mergeEnvironments(platform, environment, extraCtestEnvVars, env) ==
    mergeVariablesIntoDebugEnv(platform,
        mergeVariablesIntoDebugEnv(platform, environment, extraCtestEnvVars),
        env)

\* ...debuggedTestConfig: the fields of the test other than env
debuggedTestConfig == [program |-> "test"]

mergeConfigs(platform, config, extraCtestEnvVars, env) ==
    [config EXCEPT
        !.program = debuggedTestConfig.program,
        !.environment = mergeEnvironments(platform, @, extraCtestEnvVars, env)]

mergeLldbConfigs(config, extraCtestEnvVars, env) ==
    [config EXCEPT
        !.program = debuggedTestConfig.program,
        !.env = spread(spread(@, extraCtestEnvVars), env)]

MergeInit ==
    /\ Constructed
    /\ \E type \in DebugTypes, base \in Variables("base") :
        fnArg \in
            [platform : Platforms,
             config : { [type |-> type, program |-> "base",
                         environment |-> IF type = "lldb" THEN << >> ELSE base,
                         env |-> IF type = "lldb" THEN base ELSE << >>] },
             extraCtestEnvVars : Variables("extra"),
             env : Variables("test")]
    /\ fnRet = [pc |-> "registered", calls |-> << >>,
                config |-> [type |-> "", program |-> "",
                            environment |-> << >>, env |-> << >>]]

\* resolveDebugConfigurationWithSubstitutedVariables
resolveDebugConfiguration ==
    /\ fnRet.pc = "registered"
    /\ LET first == mergeVariablesIntoDebugEnv(fnArg.platform,
                        fnArg.config.environment, fnArg.extraCtestEnvVars)
       IN  fnRet' =
            [pc |-> "resolved",
             calls |->
                IF fnArg.config.type = "lldb" THEN << >>
                ELSE << [environment |-> fnArg.config.environment,
                         variables |-> fnArg.extraCtestEnvVars,
                         result |-> first],
                        [environment |-> first,
                         variables |-> fnArg.env,
                         result |-> mergeVariablesIntoDebugEnv(
                                        fnArg.platform, first, fnArg.env)] >>,
             config |->
                IF fnArg.config.type = "lldb"
                THEN mergeLldbConfigs(fnArg.config, fnArg.extraCtestEnvVars,
                                      fnArg.env)
                ELSE mergeConfigs(fnArg.platform, fnArg.config,
                                  fnArg.extraCtestEnvVars, fnArg.env)]
    /\ UNCHANGED <<adapterVars, fnArg>>

\* the session ends, the provider is disposed
debugSessionEnd ==
    /\ fnRet.pc = "resolved"
    /\ fnRet' = [fnRet EXCEPT !.pc = "disposed"]
    /\ UNCHANGED <<adapterVars, fnArg>>

MergeNext ==
    \/ resolveDebugConfiguration
    \/ debugSessionEnd

MergeSpec == MergeInit /\ [][MergeNext]_vars

\* the names of an environment
NamesOf(environment) == { environment[n].name : n \in 1..Len(environment) }

\* the user's environment, in the field the debugger type reads
BaseEnvironment ==
    IF fnArg.config.type = "lldb" THEN fnArg.config.env
    ELSE fnArg.config.environment

\* the source that must win for a name: the test, else the extra
\* variables, else the user's configuration
Winner(names) ==
    IF NamesOf(fnArg.env) \cap names # {} THEN "test"
    ELSE IF NamesOf(fnArg.extraCtestEnvVars) \cap names # {} THEN "extra"
    ELSE "base"

\* the names a lookup of varname finds in a list on this platform
SameVariable(varname) ==
    IF fnArg.platform = "win32"
    THEN { n \in EnvNames : toUpperCase(n) = toUpperCase(varname) }
    ELSE { varname }

AllNames ==
    NamesOf(BaseEnvironment) \cup NamesOf(fnArg.extraCtestEnvVars)
        \cup NamesOf(fnArg.env)

NoDuplicates(platform, environment) ==
    \A i, j \in 1..Len(environment) :
        i # j => getVariableIndex(platform, environment[i].name, environment)
                    # getVariableIndex(platform, environment[j].name,
                                       environment)

\* C28 as stated: merging variables into an environment list without
\* duplicate names (whatever the case, on win32) gives a list without
\* duplicate names
C28_MergeKeepsNamesUnique ==
    \A c \in 1..Len(fnRet.calls) :
        NoDuplicates(fnArg.platform, fnRet.calls[c].environment)
            => NoDuplicates(fnArg.platform, fnRet.calls[c].result)

\* ---------------------------------------------------------------------
\* debug() of the adapter, called in any state of the adapter.  fnArg is
\* the list of IDs; fnRet is [pc, todo, sessions, errors]: the IDs still
\* to debug, those a debug session was started for, and those an error
\* was logged for.
\* ---------------------------------------------------------------------

\* the ID lists the Test Explorer may pass to debug()
DebugRequests ==
    UNION { [1..n -> { ROOT_SUITE_ID, NameAX, NameAY, SuiteA }] :
                n \in 0..MaxIds }

\* what starting the session of a test does: getConfigStrings rejects,
\* startDebugging resolves, startDebugging rejects
DebugOutcomes == { "configError", "started", "startError" }

DebugInit ==
    /\ \E st \in { "idle", "loading", "running" },
          tests \in Manifests \cup { << >> },
          proc \in { NoProc, 1 } :
        /\ proc # NoProc => st = "running"
        /\ state = st
        /\ ctestPath = IF tests = << >> THEN "" ELSE "ctest"
        /\ cmakeTests = tests
        /\ currentTestProcess = proc
    /\ disposables = {"tests", "testStates", "autorun"}
    /\ disposed = {}
    /\ frames = <<>>
    /\ procs = <<>>
    /\ events = <<>>
    /\ nApi = 0
    /\ lastCall = "none"
    /\ fnArg \in DebugRequests
    /\ fnRet = [pc |-> "idle", todo |-> << >>, sessions |-> << >>,
                errors |-> << >>]

\* debug(tests)
debug ==
    /\ fnRet.pc = "idle"
    /\ fnRet' = [fnRet EXCEPT !.pc = "loop", !.todo = fnArg]
    /\ UNCHANGED <<adapterVars, fnArg>>

\* debugTest goes past its two early returns
isDebuggableAlways(id, tests) == TRUE

isDebuggable(id, tests) ==
    /\ id # ROOT_SUITE_ID
    /\ \E n \in 1..Len(tests) : tests[n] = id

\* debugTest(id) returns early: the root suite, or no such test
debugTestReturn ==
    /\ fnRet.pc = "loop"
    /\ fnRet.todo # << >>
    /\ ~ isDebuggable(Head(fnRet.todo), cmakeTests)
    /\ fnRet' = [fnRet EXCEPT !.todo = Tail(@)]
    /\ UNCHANGED <<adapterVars, fnArg>>

\* debugTest(id) for a test of the list: try, catch, finally
debugTest(outcome) ==
    /\ fnRet.pc = "loop"
    /\ fnRet.todo # << >>
    /\ isDebuggable(Head(fnRet.todo), cmakeTests)
    /\ fnRet' = [fnRet EXCEPT
                    !.todo = Tail(@),
                    !.sessions = IF outcome = "started"
                                 THEN Append(@, Head(fnRet.todo)) ELSE @,
                    !.errors = IF outcome = "started" THEN @
                               ELSE Append(@, Head(fnRet.todo))]
    /\ UNCHANGED <<adapterVars, fnArg>>

\* the loop of debug() is over
debugReturn ==
    /\ fnRet.pc = "loop"
    /\ fnRet.todo = << >>
    /\ fnRet' = [fnRet EXCEPT !.pc = "done"]
    /\ UNCHANGED <<adapterVars, fnArg>>

DebugNext ==
    \/ debug
    \/ debugTestReturn
    \/ \E outcome \in DebugOutcomes : debugTest(outcome)
    \/ debugReturn

DebugSpec == DebugInit /\ [][DebugNext]_vars

\* the IDs debug() may start a session for: the tests of the list
DebuggedIds == Range(cmakeTests) \ { ROOT_SUITE_ID }

MaxRequests == 2

\* resolveHandler, refreshHandler, the Run profile
HandlerKinds == { "resolve", "refresh", "run" }

ControllerInit ==
    /\ Constructed
    /\ fnArg \in UNION { [1..n -> HandlerKinds] : n \in 1..MaxRequests }
    /\ fnRet = [calls |-> << >>, items |-> [by |-> 0, tests |-> << >>]]

\* a request arrives: refresh and resolve empty the tree at once
\* (controller.items.replace([])), a run needs the root item of the
\* directory; each then awaits its settings
handlerCalled ==
    LET n == Len(fnRet.calls) + 1
    IN  /\ n <= Len(fnArg)
        /\ fnArg[n] = "run" => fnRet.items.by # 0
        /\ fnRet' = [calls |-> Append(fnRet.calls, "config"),
                     items |-> IF fnArg[n] = "run" THEN fnRet.items
                               ELSE [by |-> 0, tests |-> << >>]]
        /\ UNCHANGED <<adapterVars, fnArg>>

\* the settings are there, getCtestPath returns: loadCmakeTests spawns the
\* listing process of the directory
loadCmakeTestsSpawn(n) ==
    /\ n \in DOMAIN fnRet.calls
    /\ fnRet.calls[n] = "config"
    /\ fnRet' = [fnRet EXCEPT !.calls[n] = "loading"]
    /\ UNCHANGED <<adapterVars, fnArg>>

\* the listing process exits: a reload adds the root item it built from
\* the manifest (items.add replaces the item of the same ID), a run goes
\* on with its own copy; a rejected load adds nothing
loadCmakeTestsSettle(n, ok, manifest) ==
    /\ n \in DOMAIN fnRet.calls
    /\ fnRet.calls[n] = "loading"
    /\ fnRet' = [calls |-> [fnRet.calls EXCEPT
                                ![n] = IF ok THEN "done" ELSE "failed"],
                 items |-> IF ok /\ fnArg[n] # "run"
                           THEN [by |-> n, tests |-> manifest]
                           ELSE fnRet.items]
    /\ UNCHANGED <<adapterVars, fnArg>>

ControllerNext ==
    \/ handlerCalled
    \/ \E n \in 1..MaxRequests : loadCmakeTestsSpawn(n)
    \/ \E n \in 1..MaxRequests, ok \in BOOLEAN, manifest \in Manifests :
            loadCmakeTestsSettle(n, ok, manifest)

ControllerSpec == ControllerInit /\ [][ControllerNext]_vars

\* the requests whose listing process is running
LoadsInFlight == { n \in DOMAIN fnRet.calls : fnRet.calls[n] = "loading" }

\* C33 as stated: at most one manifest load of the build directory is in
\* flight at any time
C33_OneLoadInFlight == Cardinality(LoadsInFlight) <= 1

\* the reloads started so far
Reloads == { n \in DOMAIN fnRet.calls : fnArg[n] # "run" }

\* C34 as stated: once every request is over, the root item shown for the
\* build directory, if any, was built by the reload started last
C34_LatestReloadWins ==
    (/\ Len(fnRet.calls) = Len(fnArg)
     /\ \A n \in DOMAIN fnRet.calls : fnRet.calls[n] \in { "done", "failed" }
     /\ fnRet.items.by # 0)
        => \A n \in Reloads : n <= fnRet.items.by

====
